---------------------------- MODULE Spec2Model ----------------------------
(***************************************************************************)
(* A model of the job scraper (src/scraper/core.py): the keyword matcher,  *)
(* the location filter, the per-company orchestrator scrape_company and    *)
(* the session scrape_all.                                                 *)
(*                                                                         *)
(* Strings are sequences of one-character strings, so that lower(),        *)
(* substring search and the regular expression \b<keyword>\b are computed  *)
(* character by character, as Python computes them.                        *)
(***************************************************************************)
EXTENDS Integers, Sequences, FiniteSets, TLC

VARIABLES
    \* ---- the call harness of the pure functions ----
    fn_pc,              \* "call" before the function is applied, "returned" after
    text,               \* argument text
    keywords,           \* argument keywords of match_keywords
    location_filters,   \* argument location_filters of should_filter_by_location
    ret,                \* the value returned
    \* ---- JobScraper and the session scrape_all ----
    config_universal,   \* config["universal_keywords"] as written
    universal_keywords, \* self.universal_keywords
    num_companies,      \* len(self.companies)
    ci,                 \* how many companies the for loop of scrape_all has taken
    pc,                 \* where the session is
    browser,            \* "none", "open" or "closed"
    open_pages,         \* pages created and not closed
    all_matches,        \* scrape_all's all_matches
    raised,             \* the companies whose scrape raised an exception (history)
    \* ---- the locals of the running scrape_company ----
    company,            \* the company dictionary
    all_keywords,
    attempts,           \* calls of page.goto made by _goto_with_retry
    page_count,
    n_extract,          \* calls of extract_jobs_from_page made (history)
    calls,              \* the strategies the latest extract_jobs_from_page invoked
    has_next,           \* the latest check_for_next_page result: "none", "true", "false"
    raw_jobs,           \* all_jobs as accumulated by the loop (history)
    all_jobs,
    matches,
    location_filtered,
    exc,                \* the exception in flight: "none", "timeout" or "error"
    failed_at,          \* the step that raised it (history), or "none"
    \* ---- one call of check_for_next_page ----
    pg_pc,              \* "call", "loop", "returned" (or "idle")
    custom_pagination_selectors,    \* the argument: None or a list
    next_selectors,
    selector_index,     \* how many selectors the for loop has taken
    located,            \* the selectors handed to page.locator (history)
    clicks,             \* the elements clicked (history)
    pg_ret,             \* the value returned
    \* ---- one call of execute_pre_scrape_actions ----
    act_pc,             \* "call", "loop", "repeat", "returned", "raised" (or "idle")
    actions,            \* the argument
    action_index,       \* how many actions the for loop has taken
    click_count,
    act_log,            \* what was done and logged, in order (history)
    \* ---- one call of an extractor's extract ----
    ex_pc,              \* "call", "returned" (or "idle")
    ex_strategy,        \* which extractor
    page_items,         \* what the page holds, as the extractor reads it
    ex_jobs,            \* the list returned
    ex_raised,          \* the call raised instead of returning
    ex_trace,           \* what the call did, in order (history)
    \* ---- one call of is_same_url or is_job_url ----
    url_pc,             \* "call", "returned" (or "idle")
    url1,               \* the argument url (url1 of is_same_url)
    url2,               \* the argument url2 of is_same_url
    page_domain,        \* the argument page_domain of is_job_url
    url_ret,            \* the value returned
    \* ---- split_matches and the runs of output_results ----
    out_pc,             \* "call", "returned" (or "idle")
    out_matches,        \* the argument matches
    previous_urls,
    new_matches,
    existing_matches,
    html_file,          \* the report file: whether it exists, its job links
    last_matches,       \* the matches of the run before (history)
    runs                \* the runs of output_results made

fn_vars == <<fn_pc, text, keywords, location_filters, ret>>

\* the session's variables other than pc
session_rest ==
    <<config_universal, universal_keywords, num_companies, ci, browser,
      open_pages, all_matches, raised>>

session_vars == <<pc, session_rest>>

company_vars ==
    <<company, all_keywords, attempts, page_count, n_extract, calls, has_next,
      raw_jobs, all_jobs, matches, location_filtered, exc,
                   failed_at>>

pg_vars ==
    <<pg_pc, custom_pagination_selectors, next_selectors, selector_index,
      located, clicks, pg_ret>>

act_vars == <<act_pc, actions, action_index, click_count, act_log>>

ex_vars == <<ex_pc, ex_strategy, page_items, ex_jobs, ex_raised, ex_trace>>

url_vars == <<url_pc, url1, url2, page_domain, url_ret>>

out_vars ==
    <<out_pc, out_matches, previous_urls, new_matches, existing_matches,
      html_file, last_matches, runs>>

\* the call harnesses of the URL helpers and of the report writer
util_vars == <<url_vars, out_vars>>

\* the call harnesses of check_for_next_page, execute_pre_scrape_actions
\* and the extractors
sub_vars == <<pg_vars, act_vars, ex_vars, util_vars>>

vars == <<fn_vars, session_vars, company_vars, sub_vars>>

(***************************************************************************)
(* Bounds of the model.                                                    *)
(***************************************************************************)
MaxTextLen == 3         \* longest enumerated text of the keyword matcher
MaxKeywords == 2        \* longest enumerated keyword list
MaxLocTextLen == 3      \* longest enumerated text of the location filter
MaxPatterns == 2        \* longest enumerated include / exclude list
NumCompanies == 2       \* most companies of a session
MaxPagesOverride == 2   \* largest enumerated max_pages override of a company
MaxJobs == 3            \* longest enumerated list of accumulated raw jobs

(***************************************************************************)
(* Constants of the program.                                               *)
(***************************************************************************)
MAX_PAGINATION_PAGES == 10
StopAfterAttempt == 3

(***************************************************************************)
(* Characters and strings.                                                 *)
(***************************************************************************)
Range(s) == {s[i] : i \in 1..Len(s)}

\* all sequences over S of length at most n
SeqsUpTo(S, n) == UNION {[1..k -> S] : k \in 0..n}

\* str.lower() on one character
LowerChar(c) ==
    CASE c = "A" -> "a"
      [] c = "B" -> "b"
      [] c = "G" -> "g"
      [] c = "O" -> "o"
      [] c = "P" -> "p"
      [] c = "X" -> "x"
      [] c = "E" -> "e"
      [] c = "M" -> "m"
      [] c = "N" -> "n"
      [] c = "R" -> "r"
      [] c = "T" -> "t"
      [] c = "J" -> "j"
      [] c = "S" -> "s"
      [] OTHER -> c

\* str.lower()
Lower(s) == [i \in 1..Len(s) |-> LowerChar(s[i])]

\* the characters the regular expression class \w matches
WordChars == {"a", "b", "d", "e", "g", "h", "l", "n", "o", "p", "t", "v", "x",
              "y", "A", "B", "G", "O", "P", "X", "m", "r", "s", "w", "E", "M",
              "N", "R", "T", "2"}

IsWordChar(c) == c \in WordChars

\* \b at offset p of t (between t[p] and t[p+1]; 0 is the start, Len(t) the end)
WordBoundary(t, p) ==
    LET before == p >= 1 /\ IsWordChar(t[p])
        after == p < Len(t) /\ IsWordChar(t[p + 1])
    IN  before # after

\* the literal s occurs in t starting at index i
OccursAt(s, t, i) ==
    /\ i >= 1
    /\ i + Len(s) - 1 <= Len(t)
    /\ \A j \in 1..Len(s) : t[i + j - 1] = s[j]

\* Python's  s in t
Contains(t, s) == \E i \in 1..(Len(t) - Len(s) + 1) : OccursAt(s, t, i)

(***************************************************************************)
(* JobScraper.match_keywords (core.py 89-111).                             *)
(***************************************************************************)
KeywordPatternNoLower(keyword) == keyword

\* r'\b' + re.escape(keyword.lower()) + r'\b' : the literal the pattern matches
KeywordPattern(keyword) == Lower(keyword)

ReSearchNoBoundary(literal, t) == Contains(t, literal)

\* re.search(r'\b' + re.escape(literal) + r'\b', t)
ReSearch(literal, t) ==
    \E i \in 1..(Len(t) - Len(literal) + 1) :
        /\ WordBoundary(t, i - 1)
        /\ OccursAt(literal, t, i)
        /\ WordBoundary(t, i - 1 + Len(literal))

RECURSIVE MatchLoop(_, _, _, _)
\* the loop  for keyword in keywords  from index i on, matched so far
MatchLoop(text_lower, kws, i, matched) ==
    IF i > Len(kws) THEN matched
    ELSE MatchLoop(text_lower, kws, i + 1,
                   IF ReSearch(KeywordPattern(kws[i]), text_lower)
                   THEN Append(matched, kws[i])
                   ELSE matched)

match_keywords(t, kws) ==
    IF t = <<>> \/ kws = <<>> THEN <<>>
    ELSE MatchLoop(Lower(t), kws, 1, <<>>)

(***************************************************************************)
(* JobScraper.matches_location_pattern and should_filter_by_location       *)
(* (core.py 113-165).  location_filters is None or a dict; a dict is a     *)
(* record saying which of the keys 'include' and 'exclude' it has.         *)
(***************************************************************************)
NoneFilters ==
    [is_none |-> TRUE, has_include |-> FALSE, include |-> <<>>,
     has_exclude |-> FALSE, exclude |-> <<>>]

\* location_filters.get(key, [])
GetInclude(f) == IF f.has_include THEN f.include ELSE <<>>
GetExclude(f) == IF f.has_exclude THEN f.exclude ELSE <<>>

\* not location_filters : None, or a dict without keys
FiltersFalsy(f) == f.is_none \/ (~f.has_include /\ ~f.has_exclude)

matches_location_pattern_unguarded(t, pattern) ==
    Contains(Lower(t), Lower(pattern))

matches_location_pattern(t, pattern) ==
    IF t = <<>> \/ pattern = <<>> THEN FALSE
    ELSE Contains(Lower(t), Lower(pattern))

should_filter_by_location_include_only(t, f) ==
    IF FiltersFalsy(f) THEN FALSE
    ELSE GetInclude(f) # <<>>
         /\ ~\E i \in 1..Len(GetInclude(f)) :
                matches_location_pattern(t, GetInclude(f)[i])

should_filter_by_location(t, f) ==
    IF FiltersFalsy(f) THEN FALSE
    ELSE LET include_patterns == GetInclude(f)
             exclude_patterns == GetExclude(f)
         IN  IF include_patterns # <<>>
                /\ ~\E i \in 1..Len(include_patterns) :
                       matches_location_pattern(t, include_patterns[i])
             THEN TRUE
             ELSE IF exclude_patterns # <<>>
                     /\ \E i \in 1..Len(exclude_patterns) :
                            matches_location_pattern(t, exclude_patterns[i])
                  THEN TRUE
                  ELSE FALSE

(***************************************************************************)
(* JobScraper.__init__ (core.py 58-74) and the head of scrape_company      *)
(* (core.py 342-362).                                                      *)
(***************************************************************************)
KeepCase(kws) == kws

\* [k.lower() for k in kws]
LowerAll(kws) == [i \in 1..Len(kws) |-> Lower(kws[i])]

\* list(set(kws)): the distinct entries, in an order the hash seed decides
ListOfSet(kws) ==
    LET S == Range(kws)
    IN  {s \in [1..Cardinality(S) -> S] : Range(s) = S}

\* scraping_config is None or a dict; a dict with at least one key is a
\* record with is_empty = FALSE, its use_js_navigation (False when the key
\* is absent) and its pagination_selectors ("absent", "empty" or "given")
NoneConfig ==
    [is_none |-> TRUE, is_empty |-> FALSE, use_js_navigation |-> FALSE,
     pagination_selectors |-> "absent"]

EmptyConfig ==
    [is_none |-> FALSE, is_empty |-> TRUE, use_js_navigation |-> FALSE,
     pagination_selectors |-> "absent"]

\* the truth value of a custom_config: None and {} are false
Truthy(custom_config) == ~custom_config.is_none /\ ~custom_config.is_empty

\* company.get('max_pages', self.max_pages)
company_max_pages(c) ==
    IF c.has_max_pages THEN c.max_pages ELSE MAX_PAGINATION_PAGES

(***************************************************************************)
(* JobScraper.extract_jobs_from_page (core.py 167-206): the strategy tried *)
(* first.                                                                  *)
(***************************************************************************)
FirstStrategyCustomFirst(custom_config, use_iframe) ==
    IF Truthy(custom_config) THEN "Custom"
    ELSE IF use_iframe THEN "Iframe"
    ELSE "Default"

FirstStrategy(custom_config, use_iframe) ==
    IF Truthy(custom_config) /\ custom_config.use_js_navigation THEN "Clicking"
    ELSE IF Truthy(custom_config) THEN "Custom"
    ELSE IF use_iframe THEN "Iframe"
    ELSE "Default"

(***************************************************************************)
(* scrape_company, core.py 403-407: deduplication by URL through a dict,   *)
(* which keeps the position of a key's first insertion and the value of    *)
(* its last.                                                               *)
(***************************************************************************)
\* unique_jobs[job['url']] = job ; the dict is the sequence of its values
DictPutKeepFirst(d, job) ==
    IF \E i \in 1..Len(d) : d[i].url = job.url THEN d ELSE Append(d, job)

DictPut(d, job) ==
    IF \E i \in 1..Len(d) : d[i].url = job.url
    THEN [i \in 1..Len(d) |-> IF d[i].url = job.url THEN job ELSE d[i]]
    ELSE Append(d, job)

RECURSIVE DedupLoop(_, _, _)
DedupLoop(jobs, i, unique_jobs) ==
    IF i > Len(jobs) THEN unique_jobs
    ELSE DedupLoop(jobs, i + 1, DictPut(unique_jobs, jobs[i]))

\* list(unique_jobs.values())
DedupByUrl(jobs) == DedupLoop(jobs, 1, <<>>)

(***************************************************************************)
(* scrape_company, core.py 411-429: location filter, then keyword match.   *)
(***************************************************************************)
\* f"{job['title']} {job['description']}"
combined_text(job) == job.title \o <<" ">> \o job.description

\* one iteration of  for job in all_jobs : acc is matches and location_filtered
MatchJobNoLocationFilter(acc, job, filters, kws, name) ==
    LET matched_keywords == match_keywords(combined_text(job), kws)
    IN  IF matched_keywords # <<>>
        THEN [acc EXCEPT !.matches =
                 Append(@, [title |-> job.title, url |-> job.url,
                            company |-> name,
                            matched_keywords |-> matched_keywords])]
        ELSE acc

MatchJob(acc, job, filters, kws, name) ==
    IF should_filter_by_location(combined_text(job), filters)
    THEN [acc EXCEPT !.location_filtered = @ + 1]
    ELSE LET matched_keywords == match_keywords(combined_text(job), kws)
         IN  IF matched_keywords # <<>>
             THEN [acc EXCEPT !.matches =
                      Append(@, [title |-> job.title, url |-> job.url,
                                 company |-> name,
                                 matched_keywords |-> matched_keywords])]
             ELSE acc

RECURSIVE MatchJobsLoop(_, _, _, _, _, _)
MatchJobsLoop(jobs, i, filters, kws, name, acc) ==
    IF i > Len(jobs) THEN acc
    ELSE MatchJobsLoop(jobs, i + 1, filters, kws, name,
                       MatchJob(acc, jobs[i], filters, kws, name))

(***************************************************************************)
(* The exception handlers of scrape_company (core.py 437-440).             *)
(***************************************************************************)
Exceptions == {"timeout", "error"}

CaughtOnlyTimeout(e) == e = "timeout"

\* except PlaywrightTimeout ... except Exception
Caught(e) == e = "timeout" \/ e = "error"

(***************************************************************************)
(* The inputs of a session: what the configuration holds and what the      *)
(* browser shows.                                                          *)
(***************************************************************************)
kwGo == <<"G", "o">>
kwPython == <<"P", "y", "t", "h", "o", "n">>

JobA == [url |-> "u1", title |-> <<"G", "o">>, description |-> <<"d", "e", "v">>]
JobB == [url |-> "u2", title |-> <<"x">>, description |-> <<>>]

\* what one extractor call can return
PageResults == {<<>>, <<JobA, JobB>>}

ScrapingConfigs ==
    {NoneConfig, EmptyConfig} \cup
    {[is_none |-> FALSE, is_empty |-> FALSE, use_js_navigation |-> js,
      pagination_selectors |-> ps] :
        js \in BOOLEAN, ps \in {"absent", "empty", "given"}}

NoUrlCompany ==
    [has_url |-> FALSE, keywords |-> <<>>, location_filters |-> NoneFilters,
     scraping_config |-> NoneConfig, use_iframe |-> FALSE,
     has_max_pages |-> FALSE, max_pages |-> 0]

\* a company without a URL; every scraping_config and use_iframe with every
\* max_pages override; and companies without override, which get the default
SessionCompanies ==
    {NoUrlCompany} \cup
    {[has_url |-> TRUE, keywords |-> <<>>, location_filters |-> NoneFilters,
      scraping_config |-> sc, use_iframe |-> fr,
      has_max_pages |-> TRUE, max_pages |-> mp] :
        sc \in ScrapingConfigs, fr \in BOOLEAN, mp \in 0..MaxPagesOverride} \cup
    {[has_url |-> TRUE, keywords |-> <<>>, location_filters |-> NoneFilters,
      scraping_config |-> NoneConfig, use_iframe |-> fr,
      has_max_pages |-> FALSE, max_pages |-> 0] : fr \in BOOLEAN}

\* the locals of scrape_company before it runs
CompanyIdle ==
    /\ company = NoUrlCompany
    /\ all_keywords = <<>>
    /\ attempts = 0
    /\ page_count = 0
    /\ n_extract = 0
    /\ calls = <<>>
    /\ has_next = "none"
    /\ raw_jobs = <<>>
    /\ all_jobs = <<>>
    /\ matches = <<>>
    /\ location_filtered = 0
    /\ exc = "none"
    /\ failed_at = "none"

\* no session: the state of the session while a pure function is checked
SessionIdle ==
    /\ config_universal = <<>>
    /\ universal_keywords = <<>>
    /\ num_companies = 0
    /\ ci = 0
    /\ pc = "idle"
    /\ browser = "none"
    /\ open_pages = 0
    /\ all_matches = <<>>
    /\ raised = {}
    /\ CompanyIdle

FnIdle ==
    /\ fn_pc = "idle"
    /\ text = <<>>
    /\ keywords = <<>>
    /\ location_filters = NoneFilters
    /\ ret = <<>>

\* the argument custom_pagination_selectors when it is None
NoneSelectors == [is_none |-> TRUE, list |-> <<>>]

PgIdle ==
    /\ pg_pc = "idle"
    /\ custom_pagination_selectors = NoneSelectors
    /\ next_selectors = <<>>
    /\ selector_index = 0
    /\ located = <<>>
    /\ clicks = <<>>
    /\ pg_ret = FALSE

ActIdle ==
    /\ act_pc = "idle"
    /\ actions = <<>>
    /\ action_index = 0
    /\ click_count = 0
    /\ act_log = <<>>

ExIdle ==
    /\ ex_pc = "idle"
    /\ ex_strategy = "Default"
    /\ page_items = <<>>
    /\ ex_jobs = <<>>
    /\ ex_raised = FALSE
    /\ ex_trace = <<>>

UrlIdle ==
    /\ url_pc = "idle"
    /\ url1 = <<>>
    /\ url2 = <<>>
    /\ page_domain = <<>>
    /\ url_ret = FALSE

\* the report file before any run wrote it
NoFile == [exists |-> FALSE, links |-> <<>>]

OutIdle ==
    /\ out_pc = "idle"
    /\ out_matches = <<>>
    /\ previous_urls = {}
    /\ new_matches = <<>>
    /\ existing_matches = <<>>
    /\ html_file = NoFile
    /\ last_matches = <<>>
    /\ runs = 0

UtilIdle == UrlIdle /\ OutIdle

SubIdle == PgIdle /\ ActIdle /\ ExIdle /\ UtilIdle

(***************************************************************************)
(* scrape_all (core.py 444-469).                                           *)
(***************************************************************************)
\* core.py 450-461: no companies, or launch the browser
ScrapeAllStart ==
    /\ pc = "scrape_all"
    /\ IF num_companies = 0
       THEN pc' = "done" /\ browser' = browser
       ELSE pc' = "for" /\ browser' = "open"
    /\ UNCHANGED <<config_universal, universal_keywords, num_companies, ci,
                   open_pages, all_matches, raised>>
    /\ UNCHANGED <<fn_vars, sub_vars, company_vars>>

\* core.py 463-464: the for loop takes the next company and calls
\* scrape_company on it.  The dictionary of a company is read nowhere
\* before this point, so it is drawn here.
ForNext(c) ==
    /\ pc = "for"
    /\ ci < num_companies
    /\ ci' = ci + 1
    /\ company' = c
    /\ pc' = "entry"
    /\ UNCHANGED <<all_keywords, attempts, page_count, n_extract, calls,
                   has_next, raw_jobs, all_jobs, matches, location_filtered,
                   exc, failed_at>>
    /\ UNCHANGED <<config_universal, universal_keywords, num_companies,
                   browser, open_pages, all_matches, raised>>
    /\ UNCHANGED <<fn_vars, sub_vars>>

\* core.py 467-469: after the last company: browser.close(), return
BrowserClose ==
    /\ pc = "for"
    /\ ci = num_companies
    /\ browser' = "closed"
    /\ pc' = "done"
    /\ UNCHANGED <<config_universal, universal_keywords, num_companies, ci,
                   open_pages, all_matches, raised>>
    /\ UNCHANGED <<fn_vars, sub_vars, company_vars>>

(***************************************************************************)
(* scrape_company (core.py 332-442), one action per step.                  *)
(***************************************************************************)
\* the step at hand raises e: control goes to the except clauses
Raise(e) ==
    /\ exc' = e
    /\ pc' = "except"
    /\ raised' = raised \cup {ci}
    /\ failed_at' = pc

\* core.py 342-362
ScrapeCompanyEntry ==
    /\ pc = "entry"
    /\ all_keywords' \in ListOfSet(universal_keywords \o LowerAll(company.keywords))
    /\ matches' = <<>>
    /\ pc' = IF company.has_url THEN "new_page" ELSE "return"
    /\ UNCHANGED <<company, attempts, page_count, n_extract, calls, has_next,
                   raw_jobs, all_jobs, location_filtered, exc, failed_at>>
    /\ UNCHANGED <<fn_vars, sub_vars, session_rest>>

\* core.py 366: browser.new_page
NewPage ==
    /\ pc = "new_page"
    /\ \/ /\ open_pages' = open_pages + 1
          /\ pc' = "goto"
          /\ UNCHANGED <<exc, raised, failed_at>>
       \/ \E e \in Exceptions : Raise(e) /\ UNCHANGED open_pages
    /\ UNCHANGED <<config_universal, universal_keywords, num_companies, ci,
                   browser, all_matches>>
    /\ UNCHANGED <<company, all_keywords, attempts, page_count, n_extract,
                   calls, has_next, raw_jobs, all_jobs, matches,
                   location_filtered>>
    /\ UNCHANGED <<fn_vars, sub_vars>>

GotoAttemptOneMore ==
    /\ pc = "goto"
    /\ attempts' = attempts + 1
    /\ \/ pc' = "actions" /\ UNCHANGED <<exc, raised, failed_at>>
       \/ \E e \in Exceptions :
              IF attempts + 1 < StopAfterAttempt + 1
              THEN UNCHANGED <<pc, exc, raised, failed_at>>
              ELSE Raise(e)
    /\ UNCHANGED <<config_universal, universal_keywords, num_companies, ci,
                   browser, open_pages, all_matches>>
    /\ UNCHANGED <<company, all_keywords, page_count, n_extract, calls,
                   has_next, raw_jobs, all_jobs, matches, location_filtered>>
    /\ UNCHANGED <<fn_vars, sub_vars>>

\* core.py 22-39 and 367: one call of page.goto under the retry decorator
GotoAttempt ==
    /\ pc = "goto"
    /\ attempts' = attempts + 1
    /\ \/ pc' = "actions" /\ UNCHANGED <<exc, raised, failed_at>>
       \/ \E e \in Exceptions :
              IF attempts + 1 < StopAfterAttempt
              THEN UNCHANGED <<pc, exc, raised, failed_at>>
              ELSE Raise(e)
    /\ UNCHANGED <<config_universal, universal_keywords, num_companies, ci,
                   browser, open_pages, all_matches>>
    /\ UNCHANGED <<company, all_keywords, page_count, n_extract, calls,
                   has_next, raw_jobs, all_jobs, matches, location_filtered>>
    /\ UNCHANGED <<fn_vars, sub_vars>>

\* core.py 369-378: the pre-scrape actions, which catch their own failures,
\* then the initialisation of the loop
PreScrape ==
    /\ pc = "actions"
    /\ page_count' = 0
    /\ all_jobs' = <<>>
    /\ pc' = "while"
    /\ UNCHANGED <<company, all_keywords, attempts, n_extract, calls, has_next,
                   raw_jobs, matches, location_filtered, exc, failed_at>>
    /\ UNCHANGED <<fn_vars, sub_vars, session_rest>>

WhileHeadOffByOne ==
    /\ pc = "while"
    /\ IF page_count <= company_max_pages(company)
       THEN page_count' = page_count + 1 /\ pc' = "extract"
       ELSE page_count' = page_count /\ pc' = "dedupe"
    /\ UNCHANGED <<company, all_keywords, attempts, n_extract, calls, has_next,
                   raw_jobs, all_jobs, matches, location_filtered, exc,
                   failed_at>>
    /\ UNCHANGED <<fn_vars, sub_vars, session_rest>>

\* core.py 381-383: while page_count < company_max_pages: page_count += 1
WhileHead ==
    /\ pc = "while"
    /\ IF page_count < company_max_pages(company)
       THEN page_count' = page_count + 1 /\ pc' = "extract"
       ELSE page_count' = page_count /\ pc' = "dedupe"
    /\ UNCHANGED <<company, all_keywords, attempts, n_extract, calls, has_next,
                   raw_jobs, all_jobs, matches, location_filtered, exc,
                   failed_at>>
    /\ UNCHANGED <<fn_vars, sub_vars, session_rest>>

\* a strategy that returned jobs, none, or raised
Outcome(strategy, jobs) ==
    [strategy |-> strategy, result |-> IF jobs = <<>> THEN "empty" ELSE "jobs"]

\* core.py 385-392 with 167-206: extract_jobs_from_page, then
\* all_jobs.extend(jobs).  The Iframe extractor catches every exception
\* (iframe.py 47-84); the other three can raise.
ExtractPage ==
    /\ pc = "extract"
    /\ n_extract' = n_extract + 1
    /\ LET first == FirstStrategy(company.scraping_config, company.use_iframe)
       IN  IF first = "Iframe"
           THEN \E iframe_jobs \in PageResults :
                    IF iframe_jobs # <<>>
                    THEN /\ calls' = <<Outcome("Iframe", iframe_jobs)>>
                         /\ all_jobs' = all_jobs \o iframe_jobs
                         /\ pc' = "paginate"
                         /\ UNCHANGED <<exc, raised, failed_at>>
                    ELSE \/ \E jobs \in PageResults :
                              /\ calls' = <<Outcome("Iframe", iframe_jobs),
                                            Outcome("Default", jobs)>>
                              /\ all_jobs' = all_jobs \o jobs
                              /\ pc' = "paginate"
                              /\ UNCHANGED <<exc, raised, failed_at>>
                         \/ \E e \in Exceptions :
                              /\ calls' = <<Outcome("Iframe", iframe_jobs),
                                            [strategy |-> "Default",
                                             result |-> "raised"]>>
                              /\ UNCHANGED all_jobs
                              /\ Raise(e)
           ELSE \/ \E jobs \in PageResults :
                     /\ calls' = <<Outcome(first, jobs)>>
                     /\ all_jobs' = all_jobs \o jobs
                     /\ pc' = "paginate"
                     /\ UNCHANGED <<exc, raised, failed_at>>
                \/ \E e \in Exceptions :
                     /\ calls' = <<[strategy |-> first, result |-> "raised"]>>
                     /\ UNCHANGED all_jobs
                     /\ Raise(e)
    /\ UNCHANGED <<config_universal, universal_keywords, num_companies, ci,
                   browser, open_pages, all_matches>>
    /\ UNCHANGED <<company, all_keywords, attempts, page_count, has_next,
                   raw_jobs, matches, location_filtered>>
    /\ UNCHANGED <<fn_vars, sub_vars>>

\* scraping_config.get('pagination_selectors') if scraping_config else None
custom_pagination(c) ==
    IF Truthy(c.scraping_config) THEN c.scraping_config.pagination_selectors
    ELSE "absent"

\* core.py 395-401 with 208-249: check_for_next_page, which catches the
\* failure of every selector it tries, and the break.  An empty custom list
\* returns False at once; otherwise the page decides.
Paginate ==
    /\ pc = "paginate"
    /\ \E clicked \in BOOLEAN :
           /\ custom_pagination(company) = "empty" => ~clicked
           /\ has_next' = IF clicked THEN "true" ELSE "false"
           /\ pc' = IF clicked THEN "while" ELSE "dedupe"
    /\ UNCHANGED <<company, all_keywords, attempts, page_count, n_extract,
                   calls, raw_jobs, all_jobs, matches, location_filtered, exc,
                   failed_at>>
    /\ UNCHANGED <<fn_vars, sub_vars, session_rest>>

\* core.py 403-409
Deduplicate ==
    /\ pc = "dedupe"
    /\ raw_jobs' = all_jobs
    /\ all_jobs' = DedupByUrl(all_jobs)
    /\ pc' = "match"
    /\ UNCHANGED <<company, all_keywords, attempts, page_count, n_extract,
                   calls, has_next, matches, location_filtered, exc, failed_at>>
    /\ UNCHANGED <<fn_vars, sub_vars, session_rest>>

\* core.py 411-433
FilterAndMatch ==
    /\ pc = "match"
    /\ LET acc == MatchJobsLoop(all_jobs, 1, company.location_filters,
                                all_keywords, ci,
                                [matches |-> matches, location_filtered |-> 0])
       IN  /\ matches' = acc.matches
           /\ location_filtered' = acc.location_filtered
    /\ pc' = "close"
    /\ UNCHANGED <<company, all_keywords, attempts, page_count, n_extract,
                   calls, has_next, raw_jobs, all_jobs, exc, failed_at>>
    /\ UNCHANGED <<fn_vars, sub_vars, session_rest>>

\* core.py 435: page.close(); when it raises the page may be left open
ClosePage ==
    /\ pc = "close"
    /\ \/ /\ open_pages' = open_pages - 1
          /\ pc' = "return"
          /\ UNCHANGED <<exc, raised, failed_at>>
       \/ \E e \in Exceptions, closed \in BOOLEAN :
              /\ Raise(e)
              /\ open_pages' = IF closed THEN open_pages - 1 ELSE open_pages
    /\ UNCHANGED <<config_universal, universal_keywords, num_companies, ci,
                   browser, all_matches>>
    /\ UNCHANGED <<company, all_keywords, attempts, page_count, n_extract,
                   calls, has_next, raw_jobs, all_jobs, matches,
                   location_filtered>>
    /\ UNCHANGED <<fn_vars, sub_vars>>

\* core.py 437-440: the except clauses log and fall through to the return;
\* an exception neither clause catches leaves scrape_company
Except ==
    /\ pc = "except"
    /\ pc' = IF Caught(exc) THEN "return" ELSE "crashed"
    /\ UNCHANGED <<company, all_keywords, attempts, page_count, n_extract,
                   calls, has_next, raw_jobs, all_jobs, matches,
                   location_filtered, exc, failed_at>>
    /\ UNCHANGED <<fn_vars, sub_vars, session_rest>>

ReturnPrepend ==
    /\ pc = "return"
    /\ all_matches' = matches \o all_matches
    /\ pc' = "for"
    /\ company' = NoUrlCompany
    /\ all_keywords' = <<>>
    /\ attempts' = 0
    /\ page_count' = 0
    /\ n_extract' = 0
    /\ calls' = <<>>
    /\ has_next' = "none"
    /\ raw_jobs' = <<>>
    /\ all_jobs' = <<>>
    /\ matches' = <<>>
    /\ location_filtered' = 0
    /\ exc' = "none"
    /\ failed_at' = "none"
    /\ UNCHANGED <<config_universal, universal_keywords, num_companies, ci,
                   browser, open_pages, raised>>
    /\ UNCHANGED <<fn_vars, sub_vars>>

\* core.py 442 and 464-465: return matches; all_matches.extend(matches).
\* The locals of scrape_company end with the call.
Return ==
    /\ pc = "return"
    /\ all_matches' = all_matches \o matches
    /\ pc' = "for"
    /\ company' = NoUrlCompany
    /\ all_keywords' = <<>>
    /\ attempts' = 0
    /\ page_count' = 0
    /\ n_extract' = 0
    /\ calls' = <<>>
    /\ has_next' = "none"
    /\ raw_jobs' = <<>>
    /\ all_jobs' = <<>>
    /\ matches' = <<>>
    /\ location_filtered' = 0
    /\ exc' = "none"
    /\ failed_at' = "none"
    /\ UNCHANGED <<config_universal, universal_keywords, num_companies, ci,
                   browser, open_pages, raised>>
    /\ UNCHANGED <<fn_vars, sub_vars>>

(***************************************************************************)
(* Spec: a session, from JobScraper(config) to the return of scrape_all.   *)
(***************************************************************************)
SessionUniversal == {<<kwGo>>}

Init ==
    /\ FnIdle
    /\ SubIdle
    /\ config_universal \in SessionUniversal
    /\ universal_keywords = LowerAll(config_universal)
    /\ num_companies \in 0..NumCompanies
    /\ ci = 0
    /\ pc = "scrape_all"
    /\ browser = "none"
    /\ open_pages = 0
    /\ all_matches = <<>>
    /\ raised = {}
    /\ CompanyIdle

Next ==
    \/ ScrapeAllStart
    \/ \E c \in SessionCompanies : ForNext(c)
    \/ BrowserClose
    \/ ScrapeCompanyEntry
    \/ NewPage
    \/ GotoAttempt
    \/ PreScrape
    \/ WhileHead
    \/ ExtractPage
    \/ Paginate
    \/ Deduplicate
    \/ FilterAndMatch
    \/ ClosePage
    \/ Except
    \/ Return

Spec == Init /\ [][Next]_vars

(***************************************************************************)
(* SpecData: the data path of one scrape_company call -- the head of the   *)
(* function, deduplication, filtering and matching -- over every           *)
(* enumerated configuration and every enumerated list of accumulated jobs. *)
(***************************************************************************)
Exclude(p) ==
    [is_none |-> FALSE, has_include |-> FALSE, include |-> <<>>,
     has_exclude |-> TRUE, exclude |-> <<p>>]

Include(p) ==
    [is_none |-> FALSE, has_include |-> TRUE, include |-> <<p>>,
     has_exclude |-> FALSE, exclude |-> <<>>]

DataUniversal == {<<>>, <<kwGo>>, <<kwPython, <<"g", "o">>>>}

DataCompanies ==
    {[has_url |-> TRUE, keywords |-> kws, location_filters |-> f,
      scraping_config |-> NoneConfig, use_iframe |-> FALSE,
      has_max_pages |-> FALSE, max_pages |-> 0] :
        kws \in {<<>>, <<<<"g", "o">>>>, <<kwPython>>},
        f \in {NoneFilters, Exclude(<<"d", "e", "v">>), Include(<<"G", "o">>)}}

JobGoDev ==
    [url |-> "u1", title |-> <<"G", "o">>, description |-> <<"d", "e", "v">>]
JobPython ==
    [url |-> "u1", title |-> <<"P", "y", "t", "h", "o", "n">>,
     description |-> <<>>]
JobGolang ==
    [url |-> "u2", title |-> <<"g", "o", "l", "a", "n", "g">>,
     description |-> <<"x">>]
JobGoPython ==
    [url |-> "u2", title |-> <<"g", "o", " ", "P", "y", "t", "h", "o", "n">>,
     description |-> <<"d", "e", "v">>]

DataJobs == {JobGoDev, JobPython, JobGolang, JobGoPython}

InitData ==
    /\ FnIdle
    /\ SubIdle
    /\ config_universal \in DataUniversal
    /\ universal_keywords = LowerAll(config_universal)
    /\ num_companies = 1
    /\ ci = 1
    /\ pc = "entry"
    /\ browser = "open"
    /\ open_pages = 0
    /\ all_matches = <<>>
    /\ raised = {}
    /\ company \in DataCompanies
    /\ all_keywords = <<>>
    /\ attempts = 0
    /\ page_count = 0
    /\ n_extract = 0
    /\ calls = <<>>
    /\ has_next = "none"
    /\ raw_jobs = <<>>
    /\ all_jobs = <<>>
    /\ matches = <<>>
    /\ location_filtered = 0
    /\ exc = "none"
    /\ failed_at = "none"

\* core.py 364-401 as seen from the data path: navigation and the extraction
\* loop leave some list of raw jobs in all_jobs
LoopOutcome ==
    /\ pc = "new_page"
    /\ all_jobs' \in SeqsUpTo(DataJobs, MaxJobs)
    /\ pc' = "dedupe"
    /\ UNCHANGED <<company, all_keywords, attempts, page_count, n_extract,
                   calls, has_next, raw_jobs, matches, location_filtered, exc,
                   failed_at>>
    /\ UNCHANGED <<fn_vars, sub_vars, session_rest>>

NextData ==
    \/ ScrapeCompanyEntry
    \/ LoopOutcome
    \/ Deduplicate
    \/ FilterAndMatch

SpecData == InitData /\ [][NextData]_vars

(***************************************************************************)
(* The inputs of the pure functions.                                       *)
(***************************************************************************)
KwAlphabet == {"g", "o", "G", "l", " "}

KwTexts ==
    SeqsUpTo(KwAlphabet, MaxTextLen)
        \cup {<<"g", "o", "l", "a", "n", "g">>,
              <<"G", "o", "l", "a", "n", "g", " ", "d", "e", "v">>,
              <<"G", "o", " ", "d", "e", "v">>}

KeywordPool == {<<"g", "o">>, <<"G", "o">>, <<"g">>, <<"l">>}

KeywordLists == SeqsUpTo(KeywordPool, MaxKeywords)

LocAlphabet == {"a", "b", "A", " "}

LocTexts == SeqsUpTo(LocAlphabet, MaxLocTextLen)

PatternPool == {<<>>, <<"a">>, <<"A", "b">>}

PatternLists == SeqsUpTo(PatternPool, MaxPatterns)

FilterObjects ==
    {NoneFilters} \cup
    {[is_none |-> FALSE,
      has_include |-> hi, include |-> IF hi THEN incl ELSE <<>>,
      has_exclude |-> he, exclude |-> IF he THEN excl ELSE <<>>] :
        hi \in BOOLEAN, he \in BOOLEAN, incl \in PatternLists,
        excl \in PatternLists}

(***************************************************************************)
(* SpecKeywords: match_keywords applied to every enumerated input.         *)
(***************************************************************************)
InitKeywords ==
    /\ fn_pc = "call"
    /\ text \in KwTexts
    /\ keywords \in KeywordLists
    /\ location_filters = NoneFilters
    /\ ret = <<>>
    /\ SessionIdle
    /\ SubIdle

CallMatchKeywords ==
    /\ fn_pc = "call"
    /\ ret' = match_keywords(text, keywords)
    /\ fn_pc' = "returned"
    /\ UNCHANGED <<text, keywords, location_filters>>
    /\ UNCHANGED <<session_vars, company_vars, sub_vars>>

NextKeywords == CallMatchKeywords

SpecKeywords == InitKeywords /\ [][NextKeywords]_vars

(***************************************************************************)
(* SpecLocation: should_filter_by_location applied to every enumerated     *)
(* input.                                                                  *)
(***************************************************************************)
InitLocation ==
    /\ fn_pc = "call"
    /\ text \in LocTexts
    /\ keywords = <<>>
    /\ location_filters \in FilterObjects
    /\ ret = FALSE
    /\ SessionIdle
    /\ SubIdle

CallShouldFilter ==
    /\ fn_pc = "call"
    /\ ret' = should_filter_by_location(text, location_filters)
    /\ fn_pc' = "returned"
    /\ UNCHANGED <<text, keywords, location_filters>>
    /\ UNCHANGED <<session_vars, company_vars, sub_vars>>

NextLocation == CallShouldFilter

SpecLocation == InitLocation /\ [][NextLocation]_vars

(***************************************************************************)
(* JobScraper.check_for_next_page (core.py 208-249).                       *)
(***************************************************************************)
MaxSelectors == 3       \* longest enumerated selector list

\* constants.py 110-143, in order
AllDefaultPaginationSelectors ==
    <<"a[aria-label=\"Next\"]", "a[aria-label=\"Next page\"]",
      "button[aria-label=\"Next\"]", "button[aria-label=\"Next page\"]",
      "a[rel=\"next\"]", "a.next-page", "a.pagination-next",
      "button.next-page", "button.pagination-next",
      "nav a:has-text(\"Next\")", "nav button:has-text(\"Next\")",
      "div[role=\"navigation\"] a:has-text(\"Next\")",
      "div[role=\"navigation\"] button:has-text(\"Next\")",
      "button:has-text(\"Show More\")", "button:has-text(\"Load More\")",
      "a:has-text(\"Show More\")", "a:has-text(\"Load More\")",
      "nav.pagination a.next", "ul.pagination a.next",
      "div.pagination a.next",
      "nav[aria-label*=\"pagination\" i] a:last-child">>

\* the default selectors the model tries: the first MaxSelectors of them
DEFAULT_PAGINATION_SELECTORS ==
    SubSeq(AllDefaultPaginationSelectors, 1, MaxSelectors)

\* constants.py 146-154
PAGINATION_KEYWORDS ==
    <<<<"n", "e", "x", "t">>, <<"m", "o", "r", "e">>, <<">">>, <<"→">>,
      <<"»">>, <<"l", "o", "a", "d", " ", "m", "o", "r", "e">>,
      <<"s", "h", "o", "w", " ", "m", "o", "r", "e">>>>

\* core.py 241: the symbols looked for in the text as it is
PaginationSymbols == <<<<">">>, <<"→">>, <<"»">>>>

Whitespace == {" "}

RECURSIVE LStrip(_)
LStrip(s) ==
    IF s # <<>> /\ Head(s) \in Whitespace THEN LStrip(Tail(s)) ELSE s

RECURSIVE RStrip(_)
RStrip(s) ==
    IF s # <<>> /\ s[Len(s)] \in Whitespace
    THEN RStrip(SubSeq(s, 1, Len(s) - 1))
    ELSE s

\* str.strip()
Strip(s) == RStrip(LStrip(s))

LooksLikeNextAnyText(t) == TRUE

\* core.py 238-241: the text of the element looks like a next/more button
LooksLikeNext(t) ==
    LET text_lower == Strip(Lower(t))
    IN  \/ \E k \in 1..Len(PAGINATION_KEYWORDS) :
               Contains(text_lower, PAGINATION_KEYWORDS[k])
        \/ \E k \in 1..Len(PaginationSymbols) :
               Contains(t, PaginationSymbols[k])

CustomSelectorPool == {"a.next-link", "button.more-jobs"}

PaginationArguments ==
    {NoneSelectors} \cup
    {[is_none |-> FALSE, list |-> l] :
        l \in SeqsUpTo(CustomSelectorPool, MaxSelectors)}

\* the texts an element can hold
ElementTexts ==
    {<<>>, <<" ">>, <<"N", "e", "x", "t">>, <<"N", "E", "X", "T", " ">>,
     <<"2">>, <<">">>, <<" ", "M", "o", "r", "e">>, <<"→">>, <<"»">>,
     <<"P", "r", "e", "v">>}

\* what the page answers for the first element of a selector: is_visible
\* says true or false or raises, text_content gives None or a text or
\* raises, click succeeds or raises, and the network-idle wait after the
\* click succeeds or times out
PageElements ==
    [visible : {"true", "false", "raises"},
     content : {"none", "text", "raises"},
     text : ElementTexts,
     click : {"ok", "raises"},
     idle : {"ok", "timeout"}]

\* core.py 222-229
PgCallEmptyUsesDefault ==
    /\ pg_pc = "call"
    /\ IF ~custom_pagination_selectors.is_none
          /\ custom_pagination_selectors.list # <<>>
       THEN /\ next_selectors' = custom_pagination_selectors.list
            /\ pg_pc' = "loop"
            /\ UNCHANGED pg_ret
       ELSE /\ next_selectors' = DEFAULT_PAGINATION_SELECTORS
            /\ pg_pc' = "loop"
            /\ UNCHANGED pg_ret
    /\ UNCHANGED <<custom_pagination_selectors, selector_index, located,
                   clicks>>
    /\ UNCHANGED <<fn_vars, session_vars, company_vars, act_vars, ex_vars,
                   util_vars>>

PgCall ==
    /\ pg_pc = "call"
    /\ IF ~custom_pagination_selectors.is_none
       THEN IF custom_pagination_selectors.list = <<>>
            THEN /\ pg_ret' = FALSE
                 /\ pg_pc' = "returned"
                 /\ UNCHANGED next_selectors
            ELSE /\ next_selectors' = custom_pagination_selectors.list
                 /\ pg_pc' = "loop"
                 /\ UNCHANGED pg_ret
       ELSE /\ next_selectors' = DEFAULT_PAGINATION_SELECTORS
            /\ pg_pc' = "loop"
            /\ UNCHANGED pg_ret
    /\ UNCHANGED <<custom_pagination_selectors, selector_index, located,
                   clicks>>
    /\ UNCHANGED <<fn_vars, session_vars, company_vars, act_vars, ex_vars,
                   util_vars>>

\* the element passes the checks of core.py 234-241 and is clicked
Clicks(el) ==
    /\ el.visible = "true"
    /\ el.content = "text"
    /\ el.text # <<>>
    /\ LooksLikeNext(el.text)
    /\ el.click = "ok"

\* core.py 231-247: one iteration of  for selector in next_selectors.
\* Every exception of the iteration -- of is_visible, text_content, click
\* or wait_for_load_state -- is caught at line 245 and the loop goes on to
\* the next selector.
TrySelector(el) ==
    /\ pg_pc = "loop"
    /\ selector_index < Len(next_selectors)
    /\ selector_index' = selector_index + 1
    /\ LET selector == next_selectors[selector_index + 1]
       IN  /\ located' = Append(located, selector)
           /\ clicks' = IF Clicks(el)
                        THEN Append(clicks, [selector |-> selector,
                                             visible |-> el.visible = "true",
                                             has_text |-> el.content = "text",
                                             text |-> el.text])
                        ELSE clicks
    /\ IF Clicks(el) /\ el.idle = "ok"
       THEN pg_ret' = TRUE /\ pg_pc' = "returned"
       ELSE UNCHANGED <<pg_ret, pg_pc>>
    /\ UNCHANGED <<custom_pagination_selectors, next_selectors>>
    /\ UNCHANGED <<fn_vars, session_vars, company_vars, act_vars, ex_vars,
                   util_vars>>

\* core.py 249: every selector was tried
SelectorsExhausted ==
    /\ pg_pc = "loop"
    /\ selector_index = Len(next_selectors)
    /\ pg_ret' = FALSE
    /\ pg_pc' = "returned"
    /\ UNCHANGED <<custom_pagination_selectors, next_selectors,
                   selector_index, located, clicks>>
    /\ UNCHANGED <<fn_vars, session_vars, company_vars, act_vars, ex_vars,
                   util_vars>>

InitPagination ==
    /\ FnIdle
    /\ SessionIdle
    /\ UtilIdle
    /\ ActIdle
    /\ ExIdle
    /\ pg_pc = "call"
    /\ custom_pagination_selectors \in PaginationArguments
    /\ next_selectors = <<>>
    /\ selector_index = 0
    /\ located = <<>>
    /\ clicks = <<>>
    /\ pg_ret = FALSE

NextPagination ==
    \/ PgCall
    \/ \E el \in PageElements : TrySelector(el)
    \/ SelectorsExhausted

SpecPagination == InitPagination /\ [][NextPagination]_vars

(***************************************************************************)
(* JobScraper.execute_pre_scrape_actions (core.py 251-330).  An action is  *)
(* a dictionary; the model keeps its type, repeat_until_gone, max_repeats  *)
(* (when the key is present) and wait_for_network_idle.  act_log records,  *)
(* in order, the actions the for loop took ("attempt") and what became of  *)
(* them: a click of the repeat loop ("click"), the end of the repeat loop  *)
(* ("gone", with the 'element gone' message, or "limit", with the 'max     *)
(* limit' warning), a single execution carried out ("done"), a network     *)
(* idle timeout after it ("idle_timeout"), an unknown type ("unknown"),    *)
(* and a failure caught at line 328 ("failed").                            *)
(***************************************************************************)
MaxActions == 2         \* longest enumerated list of actions
MaxRepeats == 2         \* largest enumerated max_repeats of an action

\* core.py 271: action.get('max_repeats', 50)
DefaultMaxRepeats == 50

\* core.py 297-311
KnownActionTypes ==
    {"click", "fill", "select", "check", "uncheck", "press", "hover", "wait"}

Action(type, repeat, has_max, max, idle) ==
    [type |-> type, repeat_until_gone |-> repeat, has_max_repeats |-> has_max,
     max_repeats |-> max, wait_for_network_idle |-> idle]

ActionPool ==
    {Action("click", FALSE, FALSE, 0, FALSE),
     Action("click", TRUE, FALSE, 0, FALSE),
     Action("fill", FALSE, FALSE, 0, TRUE),
     Action("fill", TRUE, TRUE, 1, FALSE),
     Action("wait", FALSE, FALSE, 0, FALSE),
     Action("scroll", FALSE, FALSE, 0, FALSE)}
    \cup {Action("click", TRUE, TRUE, n, FALSE) : n \in 0..MaxRepeats}

\* the enumerated lists of actions: at most one action of a list runs the
\* repeat loop under the default limit
ActionLists ==
    {l \in SeqsUpTo(ActionPool, MaxActions) :
        Cardinality({i \in 1..Len(l) :
                        /\ l[i].type = "click"
                        /\ l[i].repeat_until_gone
                        /\ ~l[i].has_max_repeats}) <= 1}

\* action.get('max_repeats', 50)
max_repeats(action) ==
    IF action.has_max_repeats THEN action.max_repeats ELSE DefaultMaxRepeats

Logged(i, event) == Append(act_log, [action |-> i, event |-> event])

\* core.py 258-261
ActCall ==
    /\ act_pc = "call"
    /\ act_pc' = IF actions = <<>> THEN "returned" ELSE "loop"
    /\ UNCHANGED <<actions, action_index, click_count, act_log>>
    /\ UNCHANGED <<fn_vars, session_vars, company_vars, pg_vars, ex_vars,
                   util_vars>>

FailedActionPropagates(log, i) ==
    /\ act_log' = log
    /\ act_pc' = "raised"

\* core.py 328-330: the exception of an action is caught and logged, and
\* the for loop continues
FailedAction(log, i) ==
    /\ act_log' = Append(log, [action |-> i, event |-> "failed"])
    /\ act_pc' = "loop"

\* core.py 263-276: the for loop takes an action with repeat_until_gone
\* and type click
StartRepeat ==
    /\ act_pc = "loop"
    /\ action_index < Len(actions)
    /\ LET action == actions[action_index + 1]
       IN  action.repeat_until_gone /\ action.type = "click"
    /\ action_index' = action_index + 1
    /\ click_count' = 0
    /\ act_log' = Logged(action_index + 1, "attempt")
    /\ act_pc' = "repeat"
    /\ UNCHANGED actions
    /\ UNCHANGED <<fn_vars, session_vars, company_vars, pg_vars, ex_vars,
                   util_vars>>

RepeatStepNoLimit(clickable) ==
    /\ act_pc = "repeat"
    /\ IF clickable /\ click_count < max_repeats(actions[action_index]) + 1
       THEN /\ click_count' = click_count + 1
            /\ act_log' = Logged(action_index, "click")
            /\ UNCHANGED act_pc
       ELSE /\ act_log' = Logged(action_index, "gone")
            /\ act_pc' = "loop"
            /\ UNCHANGED click_count
    /\ UNCHANGED <<actions, action_index>>
    /\ UNCHANGED <<fn_vars, session_vars, company_vars, pg_vars, ex_vars,
                   util_vars>>

\* core.py 277-290: one turn of  while click_count < max_repeats.  The
\* element is clickable when wait_for(state='visible') and click() both
\* succeed; otherwise the exception is caught at line 285 and the loop is
\* left.  After the loop the warning of line 290 is logged when
\* click_count >= max_repeats.
RepeatStep(clickable) ==
    /\ act_pc = "repeat"
    /\ LET limit == max_repeats(actions[action_index])
       IN  IF click_count < limit
           THEN IF clickable
                THEN /\ click_count' = click_count + 1
                     /\ act_log' = Logged(action_index, "click")
                     /\ UNCHANGED act_pc
                ELSE /\ act_log' =
                            IF click_count >= limit
                            THEN Append(Logged(action_index, "gone"),
                                        [action |-> action_index,
                                         event |-> "limit"])
                            ELSE Logged(action_index, "gone")
                     /\ act_pc' = "loop"
                     /\ UNCHANGED click_count
           ELSE /\ act_log' = IF click_count >= limit
                              THEN Logged(action_index, "limit")
                              ELSE act_log
                /\ act_pc' = "loop"
                /\ UNCHANGED click_count
    /\ UNCHANGED <<actions, action_index>>
    /\ UNCHANGED <<fn_vars, session_vars, company_vars, pg_vars, ex_vars,
                   util_vars>>

\* core.py 291-330: the single execution of an action.  visible: the
\* wait_for of line 294 succeeds; performed: the operation of lines 297-311
\* succeeds; settled: the network idle wait of line 322 succeeds.
SingleAction(visible, performed, settled) ==
    /\ act_pc = "loop"
    /\ action_index < Len(actions)
    /\ LET action == actions[action_index + 1]
           i == action_index + 1
           attempted == Logged(i, "attempt")
       IN  /\ ~(action.repeat_until_gone /\ action.type = "click")
           /\ IF ~visible
              THEN FailedAction(attempted, i)
              ELSE IF action.type \notin KnownActionTypes
              THEN /\ act_log' = Append(attempted,
                                        [action |-> i, event |-> "unknown"])
                   /\ act_pc' = "loop"
              ELSE IF action.type # "wait" /\ ~performed
              THEN FailedAction(attempted, i)
              ELSE /\ act_log' =
                          IF action.wait_for_network_idle /\ ~settled
                          THEN Append(Append(attempted,
                                             [action |-> i, event |-> "done"]),
                                      [action |-> i, event |-> "idle_timeout"])
                          ELSE Append(attempted,
                                      [action |-> i, event |-> "done"])
                   /\ act_pc' = "loop"
    /\ action_index' = action_index + 1
    /\ UNCHANGED <<actions, click_count>>
    /\ UNCHANGED <<fn_vars, session_vars, company_vars, pg_vars, ex_vars,
                   util_vars>>

\* the for loop is over: the function returns None
ActReturn ==
    /\ act_pc = "loop"
    /\ action_index = Len(actions)
    /\ act_pc' = "returned"
    /\ UNCHANGED <<actions, action_index, click_count, act_log>>
    /\ UNCHANGED <<fn_vars, session_vars, company_vars, pg_vars, ex_vars,
                   util_vars>>

InitActions ==
    /\ FnIdle
    /\ SessionIdle
    /\ UtilIdle
    /\ PgIdle
    /\ ExIdle
    /\ act_pc = "call"
    /\ actions \in ActionLists
    /\ action_index = 0
    /\ click_count = 0
    /\ act_log = <<>>

NextActions ==
    \/ ActCall
    \/ StartRepeat
    \/ \E clickable \in BOOLEAN : RepeatStep(clickable)
    \/ \E visible \in BOOLEAN, performed \in BOOLEAN, settled \in BOOLEAN :
           SingleAction(visible, performed, settled)
    \/ ActReturn

SpecActions == InitActions /\ [][NextActions]_vars

(***************************************************************************)
(* The extractors (src/scraper/extractors): how one extract call builds    *)
(* its list from the elements of the page.  An element is a container, a   *)
(* direct link or a clickable container, with the href of its link, its    *)
(* title and the outcome of the checks that do not depend on either.       *)
(* page_items holds the elements in document order: for Default the        *)
(* containers and then the direct job links, for Custom what each          *)
(* container selector selects, for Clicking the containers, for Iframe the *)
(* containers of each frame.                                               *)
(***************************************************************************)
MaxItems == 2               \* most elements of a group
MaxFrames == 2              \* most frames of a page
MaxContainerSelectors == 2  \* most container selectors of a configuration

MIN_TITLE_LENGTH == 3
MIN_TITLE_WORDS == 2

Strategies == {"Default", "Custom", "Iframe", "Clicking"}

\* an href: absolute (http...), relative to the page, of another scheme
\* (mailto:), or one that urljoin cannot parse ("http://[bad")
Href(kind, id) == [kind |-> kind, id |-> id]

\* a container or link: in_nav when it lies in nav, header or footer or has
\* no link, excluded when its URL or title is on an exclusion list or the
\* URL is the page itself or no job URL; text is the text of the container
Element(href, title, in_nav, excluded) ==
    [href |-> href, title |-> title, text |-> title,
     in_nav |-> in_nav, excluded |-> excluded]

\* url.startswith('http')
StartsWithHttp(href) == href.kind \in {"absolute", "malformed"}

\* url_utils.py 20-22: urljoin raises ValueError on an href it cannot parse
MakeAbsoluteRaises(href) == href.kind = "malformed"

make_absolute_url(href) ==
    IF href.kind = "relative" THEN Href("absolute", href.id) ELSE href

_is_valid_title(title, min_length) ==
    title # <<>> /\ Len(title) >= min_length

\* the dictionary appended for an element
JobOf(e, url) == [title |-> e.title, url |-> url, description |-> e.text]

\* the checks of one container or link up to the duplicate check:
\* "raise", "skip" or "job"
CheckElement(e) ==
    IF e.in_nav THEN "skip"
    ELSE IF MakeAbsoluteRaises(e.href) THEN "raise"
    ELSE IF ~StartsWithHttp(make_absolute_url(e.href)) THEN "skip"
    ELSE IF e.excluded THEN "skip"
    ELSE IF ~_is_valid_title(e.title, MIN_TITLE_LENGTH) THEN "skip"
    ELSE "job"

\* default.py 209-218 and 350-357, custom.py 129-136:
\*   if url not in found_jobs: found_jobs.add(url); jobs.append(job)
AppendUnlessFound(acc, job) ==
    IF job.url \in acc.found_jobs THEN acc
    ELSE [acc EXCEPT !.jobs = Append(@, job),
                     !.found_jobs = @ \cup {job.url}]

RECURSIVE ContainerLoop(_, _, _)
\* the loop over the containers (default.py 60-64, custom.py 75-136): no
\* exception is caught, so the first failing container ends the call
ContainerLoop(items, i, acc) ==
    IF i > Len(items) THEN acc
    ELSE LET check == CheckElement(items[i])
         IN  IF check = "raise" THEN [acc EXCEPT !.raised = TRUE]
             ELSE IF check = "job"
             THEN ContainerLoop(items, i + 1,
                      AppendUnlessFound(acc,
                          JobOf(items[i], make_absolute_url(items[i].href))))
             ELSE ContainerLoop(items, i + 1, acc)

RECURSIVE LinkLoop(_, _, _)
\* the loop over the links of one selector (default.py 316-360): the
\* try of the selector catches a failure, which ends this loop
LinkLoop(items, i, acc) ==
    IF i > Len(items) THEN acc
    ELSE LET check == CheckElement(items[i])
         IN  IF check = "raise" THEN acc
             ELSE IF check = "job"
             THEN LinkLoop(items, i + 1,
                      AppendUnlessFound(acc,
                          JobOf(items[i], make_absolute_url(items[i].href))))
             ELSE LinkLoop(items, i + 1, acc)

NoJobs == [jobs |-> <<>>, found_jobs |-> {}, raised |-> FALSE]

\* what an extract call comes to
Returns(js, trace) == [jobs |-> js, raised |-> FALSE, trace |-> trace]
Raises(trace) == [jobs |-> <<>>, raised |-> TRUE, trace |-> trace]

\* default.py 58-68: the containers, then the direct links, one found_jobs
DefaultExtract(items) ==
    LET containers == ContainerLoop(items[1], 1, NoJobs)
        direct == LinkLoop(items[2], 1,
                           [NoJobs EXCEPT
                               !.found_jobs = containers.found_jobs])
    IN  IF containers.raised THEN Raises(<<>>)
        ELSE Returns(containers.jobs \o direct.jobs, <<>>)

\* what one container selector selects: soup.select raises, or a list of
\* containers
Selected(raises, containers) ==
    [raises |-> raises, containers |-> containers]

RECURSIVE SelectContainersMerge(_, _, _)
SelectContainersMerge(selectors, k, sel) ==
    IF k > Len(selectors) THEN sel
    ELSE IF selectors[k].raises
    THEN SelectContainersMerge(selectors, k + 1,
             [sel EXCEPT !.trace = Append(@, <<k, "error">>)])
    ELSE SelectContainersMerge(selectors, k + 1,
             [containers |-> sel.containers \o selectors[k].containers,
              trace |-> Append(sel.trace, <<k, "found">>)])

RECURSIVE SelectContainers(_, _, _)
\* custom.py 61-72: the selectors are tried in order; the first that
\* selects at least one container is taken, a selector that raises is
\* passed over
SelectContainers(selectors, k, sel) ==
    IF k > Len(selectors) THEN sel
    ELSE IF selectors[k].raises
    THEN SelectContainers(selectors, k + 1,
             [sel EXCEPT !.trace = Append(@, <<k, "error">>)])
    ELSE IF selectors[k].containers # <<>>
    THEN [containers |-> selectors[k].containers,
          trace |-> Append(sel.trace, <<k, "found">>)]
    ELSE SelectContainers(selectors, k + 1,
             [sel EXCEPT !.trace = Append(@, <<k, "empty">>)])

\* custom.py 35-139
CustomExtract(items) ==
    LET sel == SelectContainers(items, 1,
                                [containers |-> <<>>, trace |-> <<>>])
        loop == ContainerLoop(sel.containers, 1, NoJobs)
    IN  IF loop.raised THEN Raises(sel.trace)
        ELSE Returns(loop.jobs, sel.trace)

\* a container of the clicking extractor: the URL its click leads to,
\* whether that is a new page, and how the step goes: "ok", "gone" (the
\* container is no longer there after the re-fetch), "click_fails" (the
\* re-fetch or the click raises) or "back_fails" (going back to the listing
\* raises); recovers tells whether the goto of the handler succeeds
Clickable(href, title, navigated, outcome, recovers) ==
    [href |-> href, title |-> title, text |-> title,
     navigated |-> navigated, outcome |-> outcome, recovers |-> recovers]

\* clicking.py 145-153: the handler goes back to the initial URL, and
\* catches the failure of that
Recover(trace, i, e) ==
    IF e.recovers THEN Append(trace, <<i, "recover">>)
    ELSE Append(Append(trace, <<i, "recover">>), <<i, "recover_failed">>)

\* clicking.py 124-129: appended without a check of the title; the title
\* stands in for the description
ClickedJob(e) == [title |-> e.title, url |-> e.href, description |-> e.title]

RECURSIVE ClickLoopAbortsOnFailure(_, _, _)
ClickLoopAbortsOnFailure(items, i, acc) ==
    IF i > Len(items) THEN acc
    ELSE LET e  == items[i]
             t1 == Append(acc.trace, <<i, "attempt">>)
             js == IF e.navigated THEN Append(acc.jobs, ClickedJob(e))
                   ELSE acc.jobs
         IN  CASE e.outcome = "gone" ->
                      ClickLoopAbortsOnFailure(items, i + 1,
                                               [acc EXCEPT !.trace = t1])
               [] e.outcome = "click_fails" -> [acc EXCEPT !.trace = t1]
               [] e.outcome = "back_fails" -> [jobs |-> js, trace |-> t1]
               [] e.outcome = "ok" ->
                      ClickLoopAbortsOnFailure(items, i + 1,
                                               [jobs |-> js, trace |-> t1])

RECURSIVE ClickLoop(_, _, _)
\* clicking.py 88-153: one step per index of the initial container count
ClickLoop(items, i, acc) ==
    IF i > Len(items) THEN acc
    ELSE LET e  == items[i]
             t1 == Append(acc.trace, <<i, "attempt">>)
             js == IF e.navigated THEN Append(acc.jobs, ClickedJob(e))
                   ELSE acc.jobs
         IN  CASE e.outcome = "gone" ->
                      ClickLoop(items, i + 1, [acc EXCEPT !.trace = t1])
               [] e.outcome = "click_fails" ->
                      ClickLoop(items, i + 1,
                                [acc EXCEPT !.trace = Recover(t1, i, e)])
               [] e.outcome = "back_fails" ->
                      ClickLoop(items, i + 1,
                                [jobs |-> js, trace |-> Recover(t1, i, e)])
               [] e.outcome = "ok" ->
                      ClickLoop(items, i + 1, [jobs |-> js, trace |-> t1])

\* clicking.py 77-156
ClickingExtract(items) ==
    LET loop == ClickLoop(items[1], 1, [jobs |-> <<>>, trace |-> <<>>])
    IN  Returns(loop.jobs, loop.trace)

\* len(title.split())
RECURSIVE WordCount(_)
WordCount(s) ==
    IF s = <<>> THEN 0
    ELSE IF Head(s) \in Whitespace THEN WordCount(Tail(s))
    ELSE IF Len(s) = 1 \/ s[2] \in Whitespace THEN 1 + WordCount(Tail(s))
    ELSE WordCount(Tail(s))

\* iframe.py 198-216
_make_frame_url_absolute(href) ==
    IF StartsWithHttp(href) THEN href ELSE Href("absolute", href.id)

\* iframe.py 128-160: the checks of one container of a frame
CheckFrameElement(e) ==
    IF e.in_nav THEN "skip"
    ELSE IF e.excluded THEN "skip"
    ELSE IF e.title = <<>> THEN "skip"
    ELSE IF WordCount(e.title) < MIN_TITLE_WORDS THEN "skip"
    ELSE "job"

RECURSIVE FrameLoop(_, _, _)
\* iframe.py 128-174: a job is appended unless a job with the same URL and
\* the same title is in the list of this frame
FrameLoop(items, i, frame_jobs) ==
    IF i > Len(items) THEN frame_jobs
    ELSE LET job == JobOf(items[i], _make_frame_url_absolute(items[i].href))
         IN  FrameLoop(items, i + 1,
                 IF \/ CheckFrameElement(items[i]) # "job"
                    \/ \E k \in 1..Len(frame_jobs) :
                           /\ frame_jobs[k].url = job.url
                           /\ frame_jobs[k].title = job.title
                 THEN frame_jobs
                 ELSE Append(frame_jobs, job))

\* a frame: accessible when its content loads and looks like a job board
Frame(accessible, containers) ==
    [accessible |-> accessible, containers |-> containers]

RECURSIVE FrameByFrame(_, _, _)
\* iframe.py 51-77: jobs.extend(frame_jobs) for every frame; a frame that
\* fails or shows no job content is passed over
FrameByFrame(frames, f, acc) ==
    IF f > Len(frames) THEN acc
    ELSE IF ~frames[f].accessible THEN FrameByFrame(frames, f + 1, acc)
    ELSE FrameByFrame(frames, f + 1,
                      acc \o FrameLoop(frames[f].containers, 1, <<>>))

\* iframe.py 42-84
IframeExtract(frames) == Returns(FrameByFrame(frames, 1, <<>>), <<>>)

Extract(s, items) ==
    CASE s = "Default" -> DefaultExtract(items)
      [] s = "Custom" -> CustomExtract(items)
      [] s = "Clicking" -> ClickingExtract(items)
      [] s = "Iframe" -> IframeExtract(items)

TitleGoDev == <<"G", "o", " ", "D", "e", "v">>
TitleQADev == <<"Q", "A", " ", "D", "e", "v">>
TitleGolang == <<"G", "o", "l", "a", "n", "g">>
TitleQA == <<"Q", "A">>

\* the containers and links of the pages of the default extractor
ContainerPool ==
    { Element(Href("absolute", "u1"), TitleGoDev, FALSE, FALSE),
      Element(Href("absolute", "u1"), TitleGolang, FALSE, FALSE),
      Element(Href("relative", "u2"), TitleGoDev, FALSE, FALSE),
      Element(Href("absolute", "u2"), TitleQA, FALSE, FALSE),
      Element(Href("malformed", "u3"), TitleGoDev, FALSE, FALSE),
      Element(Href("mailto", "u3"), TitleGoDev, FALSE, FALSE),
      Element(Href("absolute", "u2"), TitleGoDev, FALSE, TRUE),
      Element(Href("malformed", "u3"), TitleGoDev, TRUE, FALSE) }

\* the containers of the pages of the custom extractor
CustomPool ==
    { Element(Href("absolute", "u1"), TitleGoDev, FALSE, FALSE),
      Element(Href("relative", "u2"), TitleGoDev, FALSE, FALSE),
      Element(Href("malformed", "u3"), TitleGoDev, FALSE, FALSE) }

\* the containers of the frames
FramePool ==
    { Element(Href("absolute", "u1"), TitleGoDev, FALSE, FALSE),
      Element(Href("absolute", "u1"), TitleQADev, FALSE, FALSE),
      Element(Href("relative", "u2"), TitleGoDev, FALSE, FALSE),
      Element(Href("absolute", "u2"), TitleGolang, FALSE, FALSE),
      Element(Href("absolute", "u2"), TitleGoDev, FALSE, TRUE) }

\* the containers of the pages of the clicking extractor
ClickPool ==
    { Clickable(Href("absolute", "u1"), TitleGoDev, TRUE, "ok", TRUE),
      Clickable(Href("absolute", "u1"), <<>>, TRUE, "ok", TRUE),
      Clickable(Href("absolute", "u2"), TitleQA, TRUE, "back_fails", TRUE),
      Clickable(Href("absolute", "u2"), TitleGoDev, FALSE, "click_fails",
                FALSE),
      Clickable(Href("absolute", "u2"), TitleGoDev, FALSE, "click_fails",
                TRUE),
      Clickable(Href("absolute", "u1"), TitleGoDev, FALSE, "ok", TRUE),
      Clickable(Href("absolute", "u2"), TitleGoDev, FALSE, "gone", TRUE) }

SelectorResults ==
    {Selected(TRUE, <<>>)} \cup
    {Selected(FALSE, cs) : cs \in SeqsUpTo(CustomPool, MaxItems)}

Frames ==
    {Frame(a, cs) : a \in BOOLEAN, cs \in SeqsUpTo(FramePool, MaxItems)}

\* the pages of a strategy
PageItems(s) ==
    CASE s = "Default" -> [1..2 -> SeqsUpTo(ContainerPool, MaxItems)]
      [] s = "Custom" -> SeqsUpTo(SelectorResults, MaxContainerSelectors)
      [] s = "Clicking" -> [1..1 -> SeqsUpTo(ClickPool, MaxItems)]
      [] s = "Iframe" -> SeqsUpTo(Frames, MaxFrames)

\* one extract call of the strategies of S
InitExtractOf(S) ==
    /\ FnIdle
    /\ SessionIdle
    /\ UtilIdle
    /\ PgIdle
    /\ ActIdle
    /\ ex_pc = "call"
    /\ ex_strategy \in S
    /\ page_items \in PageItems(ex_strategy)
    /\ ex_jobs = <<>>
    /\ ex_raised = FALSE
    /\ ex_trace = <<>>

InitExtract == InitExtractOf(Strategies)

CallExtract ==
    /\ ex_pc = "call"
    /\ LET r == Extract(ex_strategy, page_items)
       IN  /\ ex_jobs' = r.jobs
           /\ ex_raised' = r.raised
           /\ ex_trace' = r.trace
    /\ ex_pc' = IF ex_raised' THEN "raised" ELSE "returned"
    /\ UNCHANGED <<ex_strategy, page_items>>
    /\ UNCHANGED <<fn_vars, session_vars, company_vars, pg_vars, act_vars,
                   util_vars>>

NextExtract == CallExtract

SpecExtract == InitExtract /\ [][NextExtract]_vars

\* the custom extractor alone, and the clicking extractor alone
InitCustom == InitExtractOf({"Custom"})

SpecCustom == InitCustom /\ [][NextExtract]_vars

InitClicking == InitExtractOf({"Clicking"})

SpecClicking == InitClicking /\ [][NextExtract]_vars

(***************************************************************************)
(* The report: split_matches, and the runs of output_results that write    *)
(* and read back the same HTML file.  A URL is a sequence of pieces: plain *)
(* text, "/", "&", or a piece the HTML parser reads as something else.     *)
(***************************************************************************)
MaxMatches == 2
MaxRuns == 2

\* a JobMatch, without the matched keywords
JobMatch(title, url, company_name) ==
    [title |-> title, url |-> url, company |-> company_name]

MatchPool ==
    { JobMatch("t1", <<"x">>, "B"),
      JobMatch("t2", <<"x", "/">>, "A"),
      JobMatch("t3", <<"x", "&amp;", "y">>, "A"),
      JobMatch("t4", <<"x", "&", "y">>, "B"),
      JobMatch("t5", <<"x">>, "A") }

MatchLists == SeqsUpTo(MatchPool, MaxMatches)

UrlPool == {m.url : m \in MatchPool}

\* the company names, in sorted order
SortedCompanies == <<"A", "B">>

RECURSIVE SplitLoopPrepend(_, _, _, _)
SplitLoopPrepend(ms, prev, i, acc) ==
    IF i > Len(ms) THEN acc
    ELSE IF ms[i].url \in prev
         THEN SplitLoopPrepend(ms, prev, i + 1,
                  [acc EXCEPT !.existing = <<ms[i]>> \o @])
         ELSE SplitLoopPrepend(ms, prev, i + 1,
                  [acc EXCEPT !.new = <<ms[i]>> \o @])

\* the loop of split_matches from the i-th match on
RECURSIVE SplitLoop(_, _, _, _)
SplitLoop(ms, prev, i, acc) ==
    IF i > Len(ms) THEN acc
    ELSE IF ms[i].url \in prev
         THEN SplitLoop(ms, prev, i + 1,
                  [acc EXCEPT !.existing = Append(@, ms[i])])
         ELSE SplitLoop(ms, prev, i + 1,
                  [acc EXCEPT !.new = Append(@, ms[i])])

split_matches(ms, prev) ==
    SplitLoop(ms, prev, 1, [new |-> <<>>, existing |-> <<>>])

\* what the HTML parser makes of one piece of an attribute value
Unescape(piece) ==
    IF piece = "&amp;" THEN "&" ELSE piece

\* the href the parser reads from an anchor written with this URL
ParseHref(url) == [k \in 1..Len(url) |-> Unescape(url[k])]

parse_previous_matches(file) ==
    IF ~file.exists THEN {}
    ELSE {ParseHref(file.links[k]) :
             k \in {j \in 1..Len(file.links) : file.links[j] # <<>>}}

\* the URLs of the matches of one company, in list order
UrlsOfCompany(ms, c) ==
    LET own == SelectSeq(ms, LAMBDA m : m.company = c)
    IN  [k \in 1..Len(own) |-> own[k].url]

\* the job links of one section: company by company, sorted
RECURSIVE SectionLinks(_, _)
SectionLinks(ms, c) ==
    IF c > Len(SortedCompanies) THEN <<>>
    ELSE UrlsOfCompany(ms, SortedCompanies[c]) \o SectionLinks(ms, c + 1)

\* the file generate_html writes: its job links, as written
generate_html(ms, new, existing) ==
    [exists |-> TRUE,
     links  |-> IF ms = <<>> THEN <<>>
                ELSE SectionLinks(new, 1) \o SectionLinks(existing, 1)]

\* one call of split_matches
InitSplit ==
    /\ FnIdle
    /\ SessionIdle
    /\ PgIdle
    /\ ActIdle
    /\ ExIdle
    /\ UrlIdle
    /\ out_pc = "call"
    /\ out_matches \in MatchLists
    /\ previous_urls \in SUBSET UrlPool
    /\ new_matches = <<>>
    /\ existing_matches = <<>>
    /\ html_file = NoFile
    /\ last_matches = <<>>
    /\ runs = 0

CallSplitMatches ==
    /\ out_pc = "call"
    /\ LET r == split_matches(out_matches, previous_urls)
       IN  /\ new_matches' = r.new
           /\ existing_matches' = r.existing
    /\ out_pc' = "returned"
    /\ UNCHANGED <<out_matches, previous_urls, html_file, last_matches, runs>>
    /\ UNCHANGED <<fn_vars, session_vars, company_vars, pg_vars, act_vars,
                   ex_vars, url_vars>>

NextSplit == CallSplitMatches

SpecSplit == InitSplit /\ [][NextSplit]_vars

\* the runs of output_results on one report file, which no run has
\* written at the start
InitReport ==
    /\ FnIdle
    /\ SessionIdle
    /\ PgIdle
    /\ ActIdle
    /\ ExIdle
    /\ UrlIdle
    /\ out_pc = "call"
    /\ out_matches \in MatchLists
    /\ previous_urls = {}
    /\ new_matches = <<>>
    /\ existing_matches = <<>>
    /\ html_file = NoFile
    /\ last_matches = <<>>
    /\ runs = 0

output_results ==
    /\ out_pc = "call"
    /\ LET prev == parse_previous_matches(html_file)
           r    == split_matches(out_matches, prev)
       IN  /\ previous_urls' = prev
           /\ new_matches' = r.new
           /\ existing_matches' = r.existing
           /\ html_file' = generate_html(out_matches, r.new, r.existing)
    /\ runs' = runs + 1
    /\ out_pc' = "returned"
    /\ UNCHANGED <<out_matches, last_matches>>
    /\ UNCHANGED <<fn_vars, session_vars, company_vars, pg_vars, act_vars,
                   ex_vars, url_vars>>

\* the program is run again, with the matches of the new run
NextRun ==
    /\ out_pc = "returned"
    /\ runs < MaxRuns
    /\ \E ms \in MatchLists : out_matches' = ms
    /\ last_matches' = out_matches
    /\ out_pc' = "call"
    /\ UNCHANGED <<previous_urls, new_matches, existing_matches, html_file,
                   runs>>
    /\ UNCHANGED <<fn_vars, session_vars, company_vars, pg_vars, act_vars,
                   ex_vars, url_vars>>

NextReport == output_results \/ NextRun

SpecReport == InitReport /\ [][NextReport]_vars

(***************************************************************************)
(* The URL helpers is_same_url and is_job_url (url_utils.py).  A URL is    *)
(* the sequence of its characters.                                         *)
(***************************************************************************)
MaxUrlLen == 3

\* url.split('?')[0]: the part before the first question mark
RECURSIVE BeforeQuery(_)
BeforeQuery(url) ==
    IF url = <<>> \/ Head(url) = "?" THEN <<>>
    ELSE <<Head(url)>> \o BeforeQuery(Tail(url))

\* s.rstrip('/')
RECURSIVE RStripSlash(_)
RStripSlash(s) ==
    IF s # <<>> /\ s[Len(s)] = "/" THEN RStripSlash(SubSeq(s, 1, Len(s) - 1))
    ELSE s

NormalizeKeepSlash(url) == BeforeQuery(url)

normalize_url(url) == RStripSlash(BeforeQuery(url))

is_same_url(u1, u2) == normalize_url(u1) = normalize_url(u2)

\* url.startswith(prefix)
StartsWith(url, prefix) ==
    Len(url) >= Len(prefix) /\ SubSeq(url, 1, Len(prefix)) = prefix

\* the characters that end the network location of a URL
NetlocEnd == {"/", "?", "#"}

RECURSIVE UpToDelimiter(_)
UpToDelimiter(s) ==
    IF s = <<>> \/ Head(s) \in NetlocEnd THEN <<>>
    ELSE <<Head(s)>> \o UpToDelimiter(Tail(s))

\* the position of the first colon of the URL, 0 when it has none
FirstColon(url) ==
    IF \E k \in 1..Len(url) : url[k] = ":"
    THEN CHOOSE k \in 1..Len(url) :
             url[k] = ":" /\ \A j \in 1..(k - 1) : url[j] # ":"
    ELSE 0

\* urlparse(url).netloc: what follows "scheme://" up to the next "/", "?"
\* or "#"; empty when the URL has no "//" after its scheme
Netloc(url) ==
    LET c == FirstColon(url)
    IN  IF c > 0 /\ Len(url) >= c + 2 /\ url[c + 1] = "/" /\ url[c + 2] = "/"
        THEN UpToDelimiter(SubSeq(url, c + 3, Len(url)))
        ELSE <<>>

JOB_URL_PATTERNS ==
    << <<"/", "j", "o", "b", "/">>,
       <<"/", "j", "o", "b", "s", "/">>,
       <<"/", "p", "o", "s", "i", "t", "i", "o", "n", "/">>,
       <<"/", "p", "o", "s", "i", "t", "i", "o", "n", "s", "/">>,
       <<"/", "c", "a", "r", "e", "e", "r", "/">>,
       <<"/", "c", "a", "r", "e", "e", "r", "s", "/">>,
       <<"/", "o", "p", "e", "n", "i", "n", "g", "/">>,
       <<"/", "o", "p", "e", "n", "i", "n", "g", "s", "/">>,
       <<"/", "r", "o", "l", "e", "/">>,
       <<"/", "r", "o", "l", "e", "s", "/">> >>

Http == <<"h", "t", "t", "p">>

IsJobUrlNoSchemeCheck(url, domain, job_url_patterns) ==
    IF Netloc(url) # domain THEN TRUE
    ELSE \E k \in 1..Len(job_url_patterns) :
             Contains(Lower(url), job_url_patterns[k])

is_job_url(url, domain, job_url_patterns) ==
    IF url = <<>> \/ ~StartsWith(url, Http) THEN FALSE
    ELSE IF Netloc(url) # domain THEN TRUE
    ELSE LET url_lower == Lower(url)
         IN  \E k \in 1..Len(job_url_patterns) :
                 Contains(url_lower, job_url_patterns[k])

\* the pair of URLs of the documented example of is_same_url
ExampleUrl1 ==
    <<"h", "t", "t", "p", "s", ":", "/", "/", "x", ".", "c", "o", "m", "/", "a", "?", "i", "d", "=", "1">>
ExampleUrl2 ==
    <<"h", "t", "t", "p", "s", ":", "/", "/", "x", ".", "c", "o", "m", "/", "a", "/">>

SameUrlInputs ==
    SeqsUpTo({"a", "/", "?"}, MaxUrlLen) \cup {ExampleUrl1, ExampleUrl2}

\* the URLs given to is_job_url: scheme, host, path and query combined
UrlSchemes ==
    { <<"h", "t", "t", "p", ":", "/", "/">>,
      <<"h", "t", "t", "p", "s", ":", "/", "/">>,
      <<"f", "t", "p", ":", "/", "/">>,
      <<>> }
UrlHosts ==
    { <<"x", ".", "c", "o">>, <<"y", ".", "c", "o">>, <<"X", ".", "c", "o">> }
UrlPaths ==
    { <<>>,
      <<"/", "a", "b", "o", "u", "t">>,
      <<"/", "j", "o", "b", "s", "/", "1">>,
      <<"/", "J", "O", "B", "S", "/", "1">>,
      <<"/", "j", "o", "b">>,
      <<"/", "r", "o", "l", "e", "/">> }
UrlQueries ==
    { <<>>,
      <<"?", "n", "e", "x", "t", "=", "/", "j", "o", "b", "s", "/">> }

JobUrlInputs ==
    {<<>>} \cup
    {s \o h \o p \o q :
        s \in UrlSchemes, h \in UrlHosts, p \in UrlPaths, q \in UrlQueries}

PageDomains ==
    { <<"x", ".", "c", "o">>, <<"y", ".", "c", "o">> }

\* one call of is_same_url
InitSameUrl ==
    /\ FnIdle
    /\ SessionIdle
    /\ PgIdle
    /\ ActIdle
    /\ ExIdle
    /\ OutIdle
    /\ url_pc = "call"
    /\ url1 \in SameUrlInputs
    /\ url2 \in SameUrlInputs
    /\ page_domain = <<>>
    /\ url_ret = FALSE

CallIsSameUrl ==
    /\ url_pc = "call"
    /\ url_ret' = is_same_url(url1, url2)
    /\ url_pc' = "returned"
    /\ UNCHANGED <<url1, url2, page_domain>>
    /\ UNCHANGED <<fn_vars, session_vars, company_vars, pg_vars, act_vars,
                   ex_vars, out_vars>>

NextSameUrl == CallIsSameUrl

SpecSameUrl == InitSameUrl /\ [][NextSameUrl]_vars

\* one call of is_job_url with the job URL patterns of constants.py
InitJobUrl ==
    /\ FnIdle
    /\ SessionIdle
    /\ PgIdle
    /\ ActIdle
    /\ ExIdle
    /\ OutIdle
    /\ url_pc = "call"
    /\ url1 \in JobUrlInputs
    /\ url2 = <<>>
    /\ page_domain \in PageDomains
    /\ url_ret = FALSE

CallIsJobUrl ==
    /\ url_pc = "call"
    /\ url_ret' = is_job_url(url1, page_domain, JOB_URL_PATTERNS)
    /\ url_pc' = "returned"
    /\ UNCHANGED <<url1, url2, page_domain>>
    /\ UNCHANGED <<fn_vars, session_vars, company_vars, pg_vars, act_vars,
                   ex_vars, out_vars>>

NextJobUrl == CallIsJobUrl

SpecJobUrl == InitJobUrl /\ [][NextJobUrl]_vars

(***************************************************************************)
(* Properties of match_keywords, checked under SpecKeywords.               *)
(***************************************************************************)
\* characters equal up to case
SameFold(a, b) == LowerChar(a) = LowerChar(b)

\* k occurs in t, compared case-insensitively, as a standalone token: the
\* character before the occurrence and the one after it (if any) are not
\* word characters.  (The enumerated keywords begin and end with a word
\* character, for which this is the meaning of \b on both sides.)
OccursAsToken(k, t) ==
    \E i \in 1..(Len(t) - Len(k) + 1) :
        /\ \A j \in 1..Len(k) : SameFold(t[i + j - 1], k[j])
        /\ (i = 1 \/ ~IsWordChar(t[i - 1]))
        /\ (i + Len(k) > Len(t) \/ ~IsWordChar(t[i + Len(k)]))

\* C6: match_keywords(T, K) returns only elements of K, in K's own casing;
\* a keyword is returned exactly when it occurs in T, compared
\* case-insensitively, at word boundaries; "go" is not returned for
\* "golang" and is returned for a text with the standalone token "Go".
C6_WordBoundaryMatch ==
    fn_pc = "returned" =>
        /\ \A i \in 1..Len(ret) : ret[i] \in Range(keywords)
        /\ \A k \in Range(keywords) :
               (k \in Range(ret)) <=> OccursAsToken(k, text)
        /\ (text \in {<<"g", "o", "l", "a", "n", "g">>,
                      <<"G", "o", "l", "a", "n", "g", " ", "d", "e", "v">>}
               => <<"g", "o">> \notin Range(ret))
        /\ (text = <<"G", "o", " ", "d", "e", "v">>
               /\ <<"g", "o">> \in Range(keywords)
               => <<"g", "o">> \in Range(ret))

\* the keyword "go" is returned, as written in K, for the text "Go dev"
C6_Witness ==
    /\ fn_pc = "returned"
    /\ text = <<"G", "o", " ", "d", "e", "v">>
    /\ keywords = <<<<"g", "o">>, <<"l">>>>
    /\ ret = <<<<"g", "o">>>>

\* ret is keywords with some entries left out, the others in their order
InInputOrder(r, kws) ==
    \E pos \in [1..Len(r) -> 1..Len(kws)] :
        /\ \A i \in 1..Len(r) : r[i] = kws[pos[i]]
        /\ \A i \in 1..Len(r), j \in 1..Len(r) : i < j => pos[i] < pos[j]

\* C7: match_keywords(T, K) returns the matched keywords in the order of
\* K, and no keyword appears in the result more than once, also when K
\* holds the same keyword more than once.
C7_InOrderAtMostOnce ==
    fn_pc = "returned" =>
        /\ InInputOrder(ret, keywords)
        /\ \A i \in 1..Len(ret), j \in 1..Len(ret) : i # j => ret[i] # ret[j]

(***************************************************************************)
(* Properties of should_filter_by_location, checked under SpecLocation.    *)
(***************************************************************************)
\* t contains p as a case-insensitive substring (every text contains "")
CIContains(t, p) ==
    \E i \in 1..(Len(t) - Len(p) + 1) :
        \A j \in 1..Len(p) : SameFold(t[i + j - 1], p[j])

OnlyExclude(f) ==
    ~f.is_none /\ ~f.has_include /\ f.has_exclude /\ Len(f.exclude) = 1

OnlyInclude(f) ==
    ~f.is_none /\ f.has_include /\ ~f.has_exclude /\ Len(f.include) = 1

\* C9 as stated: for every text and every single pattern p, the empty
\* pattern included, {exclude:[p]} filters iff the text contains p
\* (case-insensitive), and {include:[p]} filters iff it does not.
C9_SinglePatternAnyPattern ==
    fn_pc = "returned" =>
        /\ (OnlyExclude(location_filters)
               => (ret <=> CIContains(text, location_filters.exclude[1])))
        /\ (OnlyInclude(location_filters)
               => (ret <=> ~CIContains(text, location_filters.include[1])))

\* C9 amended: the equivalences hold for every non-empty pattern p; the
\* empty pattern matches no text, so {exclude:[""]} filters nothing and
\* {include:[""]} filters every text.
C9_SinglePattern ==
    fn_pc = "returned" =>
        /\ (OnlyExclude(location_filters) =>
               LET p == location_filters.exclude[1]
               IN  IF p = <<>> THEN ret = FALSE
                   ELSE ret <=> CIContains(text, p))
        /\ (OnlyInclude(location_filters) =>
               LET p == location_filters.include[1]
               IN  IF p = <<>> THEN ret = TRUE
                   ELSE ret <=> ~CIContains(text, p))

\* {exclude:["a"]} filters the text "bA", which contains the pattern in
\* another case
C9_Witness ==
    /\ fn_pc = "returned"
    /\ OnlyExclude(location_filters)
    /\ location_filters.exclude = <<<<"a">>>>
    /\ text = <<"b", "A">>
    /\ ret = TRUE

\* C10 as stated: the job is kept iff (the include list is absent or empty
\* or the text contains an include pattern) and the text contains no
\* exclude pattern.
C10_KeepIffBothGatesAnyPattern ==
    fn_pc = "returned" =>
        LET incl == GetInclude(location_filters)
            excl == GetExclude(location_filters)
        IN  (ret = FALSE) <=>
                /\ (incl = <<>> \/ \E i \in 1..Len(incl) : CIContains(text, incl[i]))
                /\ ~\E i \in 1..Len(excl) : CIContains(text, excl[i])

\* C10 amended: as stated, with "contains a pattern" read over the
\* non-empty patterns only (an empty pattern is never contained); None, an
\* empty object and two empty lists never filter.
C10_KeepIffBothGates ==
    fn_pc = "returned" =>
        LET incl == GetInclude(location_filters)
            excl == GetExclude(location_filters)
        IN  /\ (ret = FALSE) <=>
                /\ (incl = <<>> \/ \E i \in 1..Len(incl) :
                                      incl[i] # <<>> /\ CIContains(text, incl[i]))
                /\ ~\E i \in 1..Len(excl) :
                       excl[i] # <<>> /\ CIContains(text, excl[i])
            /\ (location_filters.is_none \/ (incl = <<>> /\ excl = <<>>)
                   => ret = FALSE)

\* a job that passes both gates: an include pattern is contained, and the
\* exclude pattern is not
C10_Witness ==
    /\ fn_pc = "returned"
    /\ location_filters.has_include /\ location_filters.has_exclude
    /\ location_filters.include = <<<<"A", "b">>, <<"a">>>>
    /\ location_filters.exclude = <<<<"A", "b">>>>
    /\ text = <<"b", "a">>
    /\ ret = FALSE

(***************************************************************************)
(* Properties of the session, checked under Spec.                          *)
(***************************************************************************)
\* C1: a failure while scraping one company never aborts the session:
\* scrape_company does not propagate the exception (the session never
\* crashes, and the exception in flight is handed to a handler that
\* returns), and when scrape_all is done scrape_company has been invoked
\* for every configured company, those after a failing one included.
C1_FailureDoesNotAbort ==
    /\ pc # "crashed"
    /\ (pc = "except" => exc \in Exceptions /\ ci \in raised)
    /\ (pc \in {"return", "for", "done"} => exc = "none" \/ pc = "return")
    /\ (pc = "done" => ci = num_companies /\ raised \subseteq 1..num_companies)

\* the first of two companies failed and the session finished the second
C1_Witness ==
    /\ pc = "done"
    /\ num_companies = 2
    /\ ci = 2
    /\ 1 \in raised
    /\ 2 \notin raised
    /\ browser = "closed"

\* the states of the extraction loop of scrape_company
InLoop == pc \in {"while", "extract", "paginate"}

\* what the loop has done so far: three steps per page
LoopMeasure ==
    3 * page_count + (CASE pc = "extract" -> 0 [] pc = "paginate" -> 1 [] OTHER -> 2)

\* the bounds of C2, state by state
PageCapInv ==
    LET N == company_max_pages(company)
    IN  /\ n_extract <= N
        /\ page_count <= N
        /\ n_extract = 0 \/ n_extract <= page_count
        /\ (pc = "extract" /\ n_extract >= 1 => has_next = "true")
        /\ (pc = "paginate" => n_extract = page_count /\ n_extract >= 1)
        /\ (pc = "dedupe" =>
               \/ has_next = "false"
               \/ n_extract = N
               \/ (N = 0 /\ n_extract = 0))
        /\ (has_next = "false" => ~InLoop)

\* C2: the extraction loop calls the extraction strategy at most N times
\* (N the company's page cap, default 10): page k+1 is extracted only if
\* check_for_next_page returned true after page k, and the loop is left at
\* the first false result or once N pages are extracted, however often
\* check_for_next_page says true.  The loop terminates: every step inside
\* it increases LoopMeasure, which the cap bounds by 3 * N + 2.
C2_PageCap ==
    /\ []PageCapInv
    /\ [][InLoop /\ InLoop' => LoopMeasure' > LoopMeasure]_vars

\* ten pages were extracted under the default cap with check_for_next_page
\* true every time, and the loop was left
C2_Witness ==
    /\ pc = "dedupe"
    /\ ~company.has_max_pages
    /\ n_extract = MAX_PAGINATION_PAGES
    /\ has_next = "true"

\* "present": the scraping_config is not None
Present(custom_config) == ~custom_config.is_none

\* C3 as stated: on each page exactly one strategy is invoked: Clicking if
\* use_js_navigation is true, otherwise Custom if a scraping_config is
\* present, otherwise Iframe if use_iframe, otherwise Default.
C3_ExactlyOneStrategy ==
    calls # <<>> =>
        /\ Len(calls) = 1
        /\ calls[1].strategy =
               IF Present(company.scraping_config)
                  /\ company.scraping_config.use_js_navigation THEN "Clicking"
               ELSE IF Present(company.scraping_config) THEN "Custom"
               ELSE IF company.use_iframe THEN "Iframe"
               ELSE "Default"

\* C3 amended: the strategy is Clicking if the scraping_config is a
\* non-empty dictionary with use_js_navigation true; otherwise Custom if it
\* is a non-empty dictionary; otherwise (None or {}) Iframe if use_iframe,
\* followed by Default exactly when Iframe returned no jobs; otherwise
\* Default alone.  Never more than these, never another order.
C3_StrategyPriority ==
    calls # <<>> =>
        LET sc == company.scraping_config
            nonempty == ~sc.is_none /\ ~sc.is_empty
        IN  IF nonempty /\ sc.use_js_navigation
            THEN Len(calls) = 1 /\ calls[1].strategy = "Clicking"
            ELSE IF nonempty
            THEN Len(calls) = 1 /\ calls[1].strategy = "Custom"
            ELSE IF company.use_iframe
            THEN /\ calls[1].strategy = "Iframe"
                 /\ calls[1].result \in {"jobs", "empty"}
                 /\ (calls[1].result = "jobs" => Len(calls) = 1)
                 /\ (calls[1].result = "empty" =>
                        Len(calls) = 2 /\ calls[2].strategy = "Default")
            ELSE Len(calls) = 1 /\ calls[1].strategy = "Default"

\* with use_iframe and no scraping_config, Iframe found nothing and Default
\* was invoked on the same page and found jobs
C3_Witness ==
    /\ pc = "paginate"
    /\ company.use_iframe
    /\ company.scraping_config = NoneConfig
    /\ calls = <<[strategy |-> "Iframe", result |-> "empty"],
                 [strategy |-> "Default", result |-> "jobs"]>>

(***************************************************************************)
(* Properties of the data path of scrape_company, checked under SpecData.  *)
(***************************************************************************)
\* C4: deduplication yields exactly one entry per distinct URL of the
\* accumulated jobs, and that entry is the last job with that URL in input
\* order.
C4_DedupLastWins ==
    pc \in {"match", "close"} =>
        /\ \A k \in 1..Len(raw_jobs) :
               Cardinality({i \in 1..Len(all_jobs) :
                                all_jobs[i].url = raw_jobs[k].url}) = 1
        /\ \A i \in 1..Len(all_jobs) :
               \E k \in 1..Len(raw_jobs) :
                   /\ raw_jobs[k] = all_jobs[i]
                   /\ \A m \in (k + 1)..Len(raw_jobs) :
                          raw_jobs[m].url # all_jobs[i].url

\* u1 occurs first and last: its entry keeps the first position and holds
\* the last job's title
C4_Witness ==
    /\ pc = "match"
    /\ raw_jobs = <<JobGoDev, JobGolang, JobPython>>
    /\ all_jobs = <<JobPython, JobGolang>>

\* the keywords as the configuration writes them
Configured == config_universal \o company.keywords

LocationFiltered(job) ==
    should_filter_by_location(combined_text(job), company.location_filters)

KeywordMatched(job) == match_keywords(combined_text(job), Configured) # <<>>

\* C5: a deduplicated job becomes a JobMatch iff the location filter keeps
\* its combined text and match_keywords over the universal and company
\* keywords returns a keyword; the location filter comes first: every job
\* it filters is counted as location-filtered, whatever its keywords, and
\* is no JobMatch; the matches keep the order of the jobs.
C5_MatchIffKeptAndMatched ==
    pc = "close" =>
        LET kept == SelectSeq(all_jobs,
                        LAMBDA j : ~LocationFiltered(j) /\ KeywordMatched(j))
        IN  /\ Len(matches) = Len(kept)
            /\ \A i \in 1..Len(kept) :
                   /\ matches[i].url = kept[i].url
                   /\ matches[i].title = kept[i].title
                   /\ matches[i].company = ci
            /\ location_filtered =
                   Cardinality({i \in 1..Len(all_jobs) :
                                    LocationFiltered(all_jobs[i])})

\* a job that matches a keyword was filtered by location, another job
\* became a JobMatch
C5_Witness ==
    /\ pc = "close"
    /\ company.location_filters = Exclude(<<"d", "e", "v">>)
    /\ all_jobs = <<JobPython, JobGoPython>>
    /\ location_filtered = 1
    /\ KeywordMatched(JobGoPython)
    /\ Len(matches) = 1
    /\ matches[1].url = "u1"

\* C8 as stated: matched_keywords are the keywords as written in the
\* configuration, not lowercased.
C8_AsConfigured ==
    pc = "close" =>
        \A i \in 1..Len(matches) :
            Range(matches[i].matched_keywords) \subseteq Range(Configured)

\* C8 amended: matched_keywords are the lowercased forms of the configured
\* keywords that occur in the job's combined text, each at most once: a
\* configured "Python" that matches is reported as "python".
C8_Lowercased ==
    pc = "close" =>
        \A i \in 1..Len(matches) :
            LET mk == matches[i].matched_keywords
            IN  /\ mk # <<>>
                /\ \A n \in 1..Len(mk) :
                       /\ mk[n] = Lower(mk[n])
                       /\ \E k \in Range(Configured) : mk[n] = Lower(k)
                /\ \A n \in 1..Len(mk), m \in 1..Len(mk) :
                       n # m => mk[n] # mk[m]
                /\ \E j \in 1..Len(all_jobs) :
                       /\ all_jobs[j].url = matches[i].url
                       /\ Range(mk) =
                              {Lower(k) : k \in
                                  {c \in Range(Configured) :
                                      OccursAsToken(c, combined_text(all_jobs[j]))}}

\* "Python" is configured and the job titled "Python" reports "python"
C8_Witness ==
    /\ pc = "close"
    /\ kwPython \in Range(config_universal)
    /\ all_jobs = <<JobPython>>
    /\ Len(matches) = 1
    /\ Lower(kwPython) \in Range(matches[1].matched_keywords)

(***************************************************************************)
(* Properties of check_for_next_page, checked under SpecPagination.        *)
(***************************************************************************)
IsPrefix(s, t) == Len(s) <= Len(t) /\ SubSeq(t, 1, Len(s)) = s

\* C11: with an empty custom selector list check_for_next_page returns
\* false without locating or clicking any element, whatever the page
\* shows; with a non-empty custom list it tries only those selectors, in
\* their order, and never one of the default selectors.
C11_CustomSelectorsOnly ==
    ~custom_pagination_selectors.is_none =>
        LET custom == custom_pagination_selectors.list
        IN  /\ (custom = <<>> =>
                   /\ located = <<>>
                   /\ clicks = <<>>
                   /\ pg_pc \in {"call", "returned"}
                   /\ (pg_pc = "returned" => pg_ret = FALSE))
            /\ IsPrefix(located, custom)
            /\ \A i \in 1..Len(located) :
                   located[i] \notin Range(AllDefaultPaginationSelectors)
            /\ \A i \in 1..Len(clicks) : clicks[i].selector \in Range(custom)

\* the call with the empty list has returned false
C11_Witness ==
    /\ pg_pc = "returned"
    /\ custom_pagination_selectors = [is_none |-> FALSE, list |-> <<>>]
    /\ pg_ret = FALSE
    /\ located = <<>>

\* the words and symbols of the claim
NextWords ==
    {<<"n", "e", "x", "t">>, <<"m", "o", "r", "e">>,
     <<"l", "o", "a", "d", " ", "m", "o", "r", "e">>,
     <<"s", "h", "o", "w", " ", "m", "o", "r", "e">>}

NextSymbols == {<<">">>, <<"→">>, <<"»">>}

\* C12: check_for_next_page never clicks on selector match alone: every
\* element it clicked was visible and had a non-empty text content that
\* contains (in any case) one of next, more, load more, show more, or one
\* of the symbols '>', '→', '»'.
C12_ClicksOnlyNextLike ==
    \A i \in 1..Len(clicks) :
        /\ clicks[i].visible
        /\ clicks[i].has_text
        /\ clicks[i].text # <<>>
        /\ \/ \E w \in NextWords : CIContains(clicks[i].text, w)
           \/ \E sym \in NextSymbols : Contains(clicks[i].text, sym)

\* the element with the text "NEXT " was clicked
C12_Witness ==
    /\ pg_pc = "returned"
    /\ pg_ret = TRUE
    /\ Len(clicks) = 1
    /\ clicks[1].text = <<"N", "E", "X", "T", " ">>

\* C13: check_for_next_page returns true exactly when it clicked an
\* element: after a click the call returns true, also when the network-idle
\* wait after the click times out, and no second element is clicked in the
\* same call; it returns false only when nothing was clicked.
C13_TrueIffClicked ==
    /\ Len(clicks) <= 1
    /\ (clicks # <<>> => pg_pc = "returned" /\ pg_ret = TRUE)
    /\ (pg_pc = "returned" => (pg_ret <=> clicks # <<>>))

(***************************************************************************)
(* Properties of navigation, failure and the session, checked under Spec.  *)
(***************************************************************************)
\* the steps of scrape_company after a successful navigation
AfterGoto ==
    pc \in {"actions", "while", "extract", "paginate", "dedupe", "match",
            "close"}

NavigationInv ==
    /\ attempts <= 3
    /\ (pc = "goto" => attempts < 3)
    /\ (AfterGoto => attempts \in 1..3)
    /\ (failed_at = "goto" =>
           /\ attempts = 3
           /\ exc \in Exceptions
           /\ pc \in {"except", "return"}
           /\ matches = <<>>)

\* C14: page.goto is attempted at most 3 times per company: attempts are
\* made only by the navigation step, one at a time, none after the first
\* that succeeds; after the third failed attempt the error reaches the
\* handlers of scrape_company, which returns no matches, and scrape_all
\* goes on with its loop.
C14_BoundedNavigation ==
    /\ []NavigationInv
    /\ [][attempts' # attempts =>
              \/ pc = "goto" /\ attempts' = attempts + 1
              \/ pc = "return" /\ attempts' = 0]_vars
    /\ [][pc = "goto" /\ pc' # "goto" =>
              \/ pc' = "actions" /\ failed_at' = "none"
              \/ pc' = "except" /\ failed_at' = "goto" /\ attempts' = 3]_vars
    /\ [][pc = "return" /\ failed_at = "goto" =>
              pc' = "for" /\ all_matches' = all_matches]_vars

\* the navigation of the second company failed three times and
\* scrape_company is about to return no matches
C14_Witness ==
    /\ pc = "return"
    /\ failed_at = "goto"
    /\ attempts = 3
    /\ matches = <<>>
    /\ ci = 2
    /\ num_companies = 2

\* C15: whenever an exception is raised at any step of scrape_company,
\* page.close() included, scrape_company returns an empty list of matches.
C15_ExceptionYieldsNoMatches ==
    pc = "return" /\ exc # "none" => matches = <<>>

SessionInv ==
    /\ \A i \in 1..Len(all_matches), j \in 1..Len(all_matches) :
           i < j => all_matches[i].company <= all_matches[j].company
    /\ \A i \in 1..Len(all_matches) :
           /\ all_matches[i].company \in 1..ci
           /\ (pc \notin {"for", "done"} => all_matches[i].company < ci)
    /\ (pc \notin {"scrape_all", "for", "done"} =>
           browser = "open" /\ ci \in 1..num_companies)
    /\ (pc = "done" /\ num_companies > 0 =>
           browser = "closed" /\ ci = num_companies)
    /\ (browser = "closed" => pc = "done")

\* C16: scrape_all takes the companies one at a time in configuration
\* order (the loop takes company i+1 only when the scrape of company i has
\* returned), closes the browser after the last company, and its result is
\* the concatenation of the lists the scrapes returned, in company order.
C16_SequentialInOrder ==
    /\ []SessionInv
    /\ [][ci' # ci => pc = "for" /\ ci' = ci + 1 /\ pc' = "entry"]_vars
    /\ [][pc = "return" => all_matches' = all_matches \o matches]_vars
    /\ [][pc # "return" => all_matches' = all_matches]_vars
    /\ [][browser' = "closed" /\ browser # "closed" =>
              ci = num_companies /\ pc = "for"]_vars

\* both companies contributed matches, the first company's first, and the
\* browser is closed
C16_Witness ==
    /\ pc = "done"
    /\ num_companies = 2
    /\ browser = "closed"
    /\ Len(all_matches) = 2
    /\ all_matches[1].company = 1
    /\ all_matches[2].company = 2

\* C17: every page scrape_company creates is closed when it returns, on
\* the success path and on every failure path: at most one page is open at
\* any time, and none between two companies.
C17_PagesClosed ==
    /\ open_pages <= 1
    /\ (pc \in {"scrape_all", "for", "entry", "new_page", "done"} =>
           open_pages = 0)

(***************************************************************************)
(* Properties of execute_pre_scrape_actions, checked under SpecActions.    *)
(***************************************************************************)
\* the events logged for action i, in order
EventsOf(i) ==
    LET own == SelectSeq(act_log, LAMBDA r : r.action = i)
    IN  [k \in 1..Len(own) |-> own[k].event]

\* the actions the for loop took, in order
Attempted ==
    LET att == SelectSeq(act_log, LAMBDA r : r.event = "attempt")
    IN  [k \in 1..Len(att) |-> att[k].action]

\* the for loop is done with action i
Completed(i) ==
    \/ i < action_index
    \/ i = action_index /\ act_pc \in {"loop", "returned"}

Count(events, e) == Cardinality({k \in 1..Len(events) : events[k] = e})

\* C18: execute_pre_scrape_actions takes every action of the list, in
\* declaration order, and never raises: an action that fails or has an
\* unknown type is logged (a failure, or the unknown type) and nothing is
\* performed for it, and the actions after it are still taken.
C18_EveryActionAttempted ==
    /\ act_pc # "raised"
    /\ Attempted = [k \in 1..action_index |-> k]
    /\ (act_pc = "returned" => action_index = Len(actions))
    /\ \A i \in 1..Len(actions) :
           Completed(i) =>
               LET ev == EventsOf(i)
               IN  /\ ev[1] = "attempt"
                   /\ Count(ev, "attempt") = 1
                   /\ (actions[i].type \notin KnownActionTypes =>
                          /\ Len(ev) = 2
                          /\ ev[2] \in {"unknown", "failed"})
                   /\ ("failed" \in Range(ev) =>
                          ev = <<"attempt", "failed">>)

\* the first action failed, the second has an unknown type, and the
\* function returned after taking both
C18_Witness ==
    /\ act_pc = "returned"
    /\ Len(actions) = 2
    /\ actions[2].type = "scroll"
    /\ EventsOf(1) = <<"attempt", "failed">>
    /\ EventsOf(2) = <<"attempt", "unknown">>

\* C19: for a click action with repeat_until_gone the runner clicks at
\* most max_repeats times (50 when the key is absent); it clicks as long
\* as the element is clickable and stops, without a failure, at the first
\* turn in which it is not; it clicks exactly max_repeats times when the
\* element never goes away; and the 'stopped at limit' warning is logged
\* exactly when the click count reached max_repeats.
C19_RepeatUntilGone ==
    \A i \in 1..Len(actions) :
        actions[i].type = "click" /\ actions[i].repeat_until_gone =>
            LET ev == EventsOf(i)
                n == Count(ev, "click")
                limit == max_repeats(actions[i])
            IN  /\ n <= limit
                /\ "failed" \notin Range(ev)
                /\ (i = action_index /\ act_pc = "repeat" =>
                       /\ click_count = n
                       /\ ev = <<"attempt">> \o [k \in 1..n |-> "click"])
                /\ (Completed(i) =>
                       /\ Len(ev) = n + 2
                       /\ SubSeq(ev, 1, n + 1) =
                              <<"attempt">> \o [k \in 1..n |-> "click"]
                       /\ ev[n + 2] \in {"gone", "limit"}
                       /\ (ev[n + 2] = "limit" <=> n = limit)
                       /\ (ev[n + 2] = "gone" <=> n < limit))

\* the element never went away: with max_repeats 2 it was clicked twice
\* and the warning was logged
C19_Witness ==
    /\ act_pc = "returned"
    /\ Len(actions) = 1
    /\ actions[1] = Action("click", TRUE, TRUE, 2, FALSE)
    /\ EventsOf(1) = <<"attempt", "click", "click", "limit">>

(***************************************************************************)
(* Properties of the extractors, checked under SpecExtract.                *)
(***************************************************************************)
\* C20: for each of the four strategies the list one extract call returns
\* holds no two jobs with the same URL.
C20_NoDuplicateUrls ==
    ex_pc = "returned" =>
        \A i \in 1..Len(ex_jobs), j \in 1..Len(ex_jobs) :
            i # j => ex_jobs[i].url # ex_jobs[j].url

(***************************************************************************)
(* Pagination inside scrape_company, checked under Spec.                   *)
(***************************************************************************)
\* C30: in scrape_company every check_for_next_page call that returned
\* true is followed by an extraction of the page it advanced to: the loop
\* is never left, and never stands at its head with the page cap reached,
\* right after a pagination control was activated.
C30_AdvanceThenExtract ==
    /\ (pc = "while" /\ has_next = "true" =>
           page_count < company_max_pages(company))
    /\ (pc = "dedupe" => has_next # "true")

(***************************************************************************)
(* Properties of split_matches, checked under SpecSplit, and of the runs   *)
(* of output_results, checked under SpecReport.                            *)
(***************************************************************************)
\* the number of positions of a list that hold x
Occurrences(s, x) == Cardinality({k \in 1..Len(s) : s[k] = x})

\* s keeps the relative order its matches have in t
RECURSIVE IsSubsequence(_, _)
IsSubsequence(s, t) ==
    IF s = <<>> THEN TRUE
    ELSE IF t = <<>> THEN FALSE
    ELSE IF Head(s) = Head(t) THEN IsSubsequence(Tail(s), Tail(t))
    ELSE IsSubsequence(s, Tail(t))

\* C24: split_matches partitions its input: every input match is in exactly
\* one of the two lists returned, in the existing list exactly when its URL
\* is a member of previous_urls (exact equality), and each list keeps the
\* relative order of the input.
C24_SplitPartitions ==
    out_pc = "returned" =>
        /\ \A m \in MatchPool :
               Occurrences(new_matches, m) + Occurrences(existing_matches, m)
                   = Occurrences(out_matches, m)
        /\ \A k \in 1..Len(existing_matches) :
               existing_matches[k].url \in previous_urls
        /\ \A k \in 1..Len(new_matches) :
               new_matches[k].url \notin previous_urls
        /\ IsSubsequence(new_matches, out_matches)
        /\ IsSubsequence(existing_matches, out_matches)

\* two different matches in the new list, and a match in the existing list
\* while a URL that differs from a previous one only by a slash is new
C24_Witness ==
    /\ out_pc = "returned"
    /\ runs = 0
    /\ Len(new_matches) = 2
    /\ new_matches[1] # new_matches[2]
    /\ previous_urls = {<<"x">>}

\* C27: with no earlier report every match is new; after a run that wrote
\* the matches M1, the next run reports a match as previously found exactly
\* when its URL is the URL of some match of M1.
C27_ExistingIffInPreviousRun ==
    out_pc = "returned" /\ runs >= 1 =>
        /\ runs = 1 =>
               existing_matches = <<>> /\ new_matches = out_matches
        /\ runs >= 2 =>
               \A k \in 1..Len(out_matches) :
                   (\E j \in 1..Len(existing_matches) :
                        existing_matches[j] = out_matches[k])
                   <=> (\E j \in 1..Len(last_matches) :
                            last_matches[j].url = out_matches[k].url)

(***************************************************************************)
(* Properties of is_same_url, checked under SpecSameUrl, and of            *)
(* is_job_url, checked under SpecJobUrl.                                   *)
(***************************************************************************)
\* a URL without the part from its first "?" on and without one trailing
\* slash
WithoutQueryAndSlash(url) ==
    LET k    == IF \E j \in 1..Len(url) : url[j] = "?"
                THEN CHOOSE j \in 1..Len(url) :
                         url[j] = "?" /\ \A i \in 1..(j - 1) : url[i] # "?"
                ELSE Len(url) + 1
        base == SubSeq(url, 1, k - 1)
    IN  IF base # <<>> /\ base[Len(base)] = "/"
        THEN SubSeq(base, 1, Len(base) - 1)
        ELSE base

\* C25: is_same_url is reflexive and symmetric, and it does not look at the
\* query string or at a trailing slash: two URLs that differ only in the
\* part from the first "?" on or in a trailing slash compare equal, and
\* is_same_url("https://x.com/a?id=1", "https://x.com/a/") is true.
C25_SameUrl ==
    url_pc = "returned" =>
        /\ url1 = url2 => url_ret
        /\ url_ret = is_same_url(url2, url1)
        /\ url2 = url1 \o <<"/">> => url_ret
        /\ IsPrefix(url1 \o <<"?">>, url2) => url_ret
        /\ WithoutQueryAndSlash(url1) = WithoutQueryAndSlash(url2) => url_ret
        /\ url1 = ExampleUrl1 /\ url2 = ExampleUrl2 => url_ret

\* the documented example, answered true
C25_Witness ==
    /\ url_pc = "returned"
    /\ url1 = ExampleUrl1
    /\ url2 = ExampleUrl2
    /\ url_ret

\* the path of a URL: what follows its network location, up to "?" or "#"
UrlPath(url) ==
    LET c     == FirstColon(url)
        start == c + 3 + Len(Netloc(url))
        rest  == SubSeq(url, start, Len(url))
        stop  == {k \in 1..Len(rest) : rest[k] \in {"?", "#"}}
    IN  IF stop = {} THEN rest
        ELSE SubSeq(rest, 1, (CHOOSE k \in stop : \A j \in stop : k <= j) - 1)

HasJobPattern(s) ==
    \E k \in 1..Len(JOB_URL_PATTERNS) : Contains(s, JOB_URL_PATTERNS[k])

\* C26 as stated: is_job_url is true for every URL whose domain differs
\* from page_domain, whatever its path; for a URL of the same domain it is
\* true exactly when the path of the URL contains a job pattern.
C26_AsStated ==
    url_pc = "returned" =>
        /\ Netloc(url1) # page_domain => url_ret
        /\ Netloc(url1) = page_domain => (url_ret <=> HasJobPattern(UrlPath(url1)))

\* C26, amended: is_job_url is false for an empty URL and for one that does
\* not start with "http"; for a URL that starts with "http" it is true when
\* the domain of the URL differs from page_domain, whatever the path, and
\* for the same domain it is true exactly when the lowercased URL (query
\* string included) contains a job pattern.
C26_JobUrl ==
    url_pc = "returned" /\ page_domain # <<>> =>
        /\ ~StartsWith(url1, Http) => ~url_ret
        /\ StartsWith(url1, Http) /\ Netloc(url1) # page_domain => url_ret
        /\ StartsWith(url1, Http) /\ Netloc(url1) = page_domain =>
               (url_ret <=> HasJobPattern(Lower(url1)))

\* a URL of the page's own domain accepted for a pattern that only its
\* query string holds
C26_Witness ==
    /\ url_pc = "returned"
    /\ page_domain # <<>>
    /\ StartsWith(url1, Http)
    /\ Netloc(url1) = page_domain
    /\ ~HasJobPattern(Lower(UrlPath(url1)))
    /\ url_ret

(***************************************************************************)
(* Properties of the elements an extract call works through, checked under *)
(* SpecExtract, SpecCustom and SpecClicking.                               *)
(***************************************************************************)
\* the selectors of a custom page that select at least one container
Matching ==
    {k \in 1..Len(page_items) :
        ~page_items[k].raises /\ page_items[k].containers # <<>>}

FirstMatching == CHOOSE k \in Matching : \A j \in Matching : k <= j

\* the elements of the page the strategy works through
ElementsOf(s, items) ==
    CASE s = "Default" -> Range(items[1]) \cup Range(items[2])
      [] s = "Custom" ->
             IF Matching = {} THEN {}
             ELSE Range(items[FirstMatching].containers)
      [] s = "Clicking" -> Range(items[1])
      [] s = "Iframe" ->
             UNION {Range(items[f].containers) :
                       f \in {g \in 1..Len(items) : items[g].accessible}}

\* the element itself is sound and passes the checks of the strategy
YieldsJob(s, e) ==
    CASE s \in {"Default", "Custom"} -> CheckElement(e) = "job"
      [] s = "Clicking" -> e.outcome \in {"ok", "back_fails"} /\ e.navigated
      [] s = "Iframe" -> CheckFrameElement(e) = "job"

UrlOf(s, e) ==
    CASE s \in {"Default", "Custom"} -> make_absolute_url(e.href)
      [] s = "Clicking" -> e.href
      [] s = "Iframe" -> _make_frame_url_absolute(e.href)

\* C21: every job an extract call returns, whatever the strategy, has a
\* non-empty title of at least 3 characters and an absolute URL.
C21_TitleAndAbsoluteUrl ==
    ex_pc = "returned" =>
        \A k \in 1..Len(ex_jobs) :
            /\ ex_jobs[k].title # <<>>
            /\ Len(ex_jobs[k].title) >= MIN_TITLE_LENGTH
            /\ ex_jobs[k].url.kind = "absolute"

\* C22: in every strategy the failure of one element skips that element
\* only: the extract call does not raise, and it returns the jobs of the
\* other elements.
C22_FailureSkipsOneElement ==
    ex_pc # "call" =>
        /\ ~ex_raised
        /\ \A e \in ElementsOf(ex_strategy, page_items) :
               YieldsJob(ex_strategy, e) =>
                   \E k \in 1..Len(ex_jobs) :
                       ex_jobs[k].url = UrlOf(ex_strategy, e)

\* C23: the custom extractor tries its container selectors in order and
\* takes the containers of exactly the first selector that selects at least
\* one element: every job comes from a container of that selector, no
\* later selector is tried, and with no selector selecting anything the
\* list is empty.
C23_FirstMatchingSelector ==
    ex_strategy = "Custom" /\ ex_pc # "call" =>
        IF Matching = {}
        THEN /\ ex_pc = "returned"
             /\ ex_jobs = <<>>
             /\ Len(ex_trace) = Len(page_items)
             /\ \A k \in 1..Len(ex_trace) :
                    ex_trace[k][1] = k /\ ex_trace[k][2] # "found"
        ELSE /\ Len(ex_trace) = FirstMatching
             /\ \A k \in 1..Len(ex_trace) :
                    /\ ex_trace[k][1] = k
                    /\ ex_trace[k][2] = "found" <=> k = FirstMatching
             /\ \A j \in 1..Len(ex_jobs) :
                    \E e \in Range(page_items[FirstMatching].containers) :
                        /\ ex_jobs[j].url = make_absolute_url(e.href)
                        /\ ex_jobs[j].title = e.title
             /\ ex_pc = "returned" =>
                    \A e \in Range(page_items[FirstMatching].containers) :
                        CheckElement(e) = "job" =>
                            \E j \in 1..Len(ex_jobs) :
                                ex_jobs[j].url = make_absolute_url(e.href)

\* both selectors select a container, and only the job of the first is
\* returned
C23_Witness ==
    /\ ex_strategy = "Custom"
    /\ ex_pc = "returned"
    /\ Len(page_items) = 2
    /\ Matching = {1, 2}
    /\ \E e \in Range(page_items[2].containers) :
           e.href = Href("relative", "u2")
    /\ Len(ex_jobs) = 1
    /\ ex_jobs[1].url = Href("absolute", "u1")

\* the steps of the clicking loop that failed, and those that recorded a job
FailedIndexes ==
    {i \in 1..Len(page_items[1]) :
        page_items[1][i].outcome \in {"click_fails", "back_fails"}}

RecordedIndexes ==
    {i \in 1..Len(page_items[1]) :
        /\ page_items[1][i].outcome \in {"ok", "back_fails"}
        /\ page_items[1][i].navigated}

Position(ev) ==
    IF \E p \in 1..Len(ex_trace) : ex_trace[p] = ev
    THEN CHOOSE p \in 1..Len(ex_trace) : ex_trace[p] = ev
    ELSE 0

\* C28: in the clicking extractor a failure at index i does not end the
\* loop: the extractor tries to go back to the initial URL and goes on with
\* index i + 1, so every index of the initial container count is attempted,
\* in order, the call does not raise, and the jobs recorded at the other
\* indexes are returned.
C28_FailureDoesNotAbort ==
    ex_strategy = "Clicking" /\ ex_pc # "call" =>
        LET n == Len(page_items[1])
            attempted == SelectSeq(ex_trace, LAMBDA ev : ev[2] = "attempt")
        IN  /\ ex_pc = "returned"
            /\ ~ex_raised
            /\ attempted = [i \in 1..n |-> <<i, "attempt">>]
            /\ \A i \in 1..n :
                   IF i \in FailedIndexes
                   THEN /\ Position(<<i, "attempt">>)
                               < Position(<<i, "recover">>)
                        /\ i < n => Position(<<i, "recover">>)
                                        < Position(<<i + 1, "attempt">>)
                   ELSE Position(<<i, "recover">>) = 0
            /\ Len(ex_jobs) = Cardinality(RecordedIndexes)
            /\ \A i \in RecordedIndexes :
                   ex_jobs[Cardinality({j \in RecordedIndexes : j <= i})]
                       = ClickedJob(page_items[1][i])

\* the first container records a job and fails on the way back, the second
\* fails and the recovery fails too: the job of the first is returned
C28_Witness ==
    /\ ex_strategy = "Clicking"
    /\ ex_pc = "returned"
    /\ Len(page_items[1]) = 2
    /\ page_items[1][1].outcome = "back_fails"
    /\ page_items[1][2].outcome = "click_fails"
    /\ ~page_items[1][2].recovers
    /\ Len(ex_jobs) = 1
    /\ ex_trace = << <<1, "attempt">>, <<1, "recover">>, <<2, "attempt">>,
                     <<2, "recover">>, <<2, "recover_failed">> >>

\* C29: the list the iframe extractor returns holds no two entries with
\* the same URL and the same title, over all the frames visited; entries
\* with the same URL and different titles are both kept.
C29_NoDuplicatePairs ==
    ex_strategy = "Iframe" /\ ex_pc = "returned" =>
        /\ \A i \in 1..Len(ex_jobs), j \in 1..Len(ex_jobs) :
               i # j => \/ ex_jobs[i].url # ex_jobs[j].url
                        \/ ex_jobs[i].title # ex_jobs[j].title
        /\ \A e \in ElementsOf("Iframe", page_items) :
               YieldsJob("Iframe", e) =>
                   \E k \in 1..Len(ex_jobs) :
                       /\ ex_jobs[k].url = UrlOf("Iframe", e)
                       /\ ex_jobs[k].title = e.title

=============================================================================
